---- MODULE Spec2Model ----
(***************************************************************************)
(* Xidi plugin registry (Source/PluginRegistry.cpp) and the built-in       *)
(* XInput physical controller backend                                      *)
(* (Source/PhysicalControllerBackendXInput.cpp).                           *)
(*                                                                         *)
(* Spec         the registry: threads calling LoadConfiguredPlugins, the   *)
(*              load body run under std::call_once, LoadSinglePlugin step  *)
(*              by step.                                                   *)
(* SpecLookup   the registry with threads that also call                   *)
(*              GetPhysicalControllerBackendInterface at any moment.       *)
(* SpecEnumerate     the registry again, over modules whose count function *)
(*              reports three, zero, a negative number of interfaces, or a *)
(*              number that changes between calls.                         *)
(* SpecBackend  the backend's ReadInputState applied to vendor results and *)
(*              vendor snapshots drawn from bounded sets.                  *)
(* SpecIdentity the backend's SupportsControllerByGuidAndPath applied to   *)
(*              identity strings drawn from a bounded set.                 *)
(* SpecCapabilities  assignments through SPhysicalCapabilities::operator[] *)
(*              to a value-initialized capabilities object.                *)
(* SpecForceFeedback  the backend's WriteForceFeedbackState applied to     *)
(*              force feedback states and vendor results from bounded      *)
(*              sets.                                                      *)
(* SpecReport   the backend's GetCapabilities called between polls of      *)
(*              ReadInputState.                                            *)
(* SpecExample  the example plugin's backend                               *)
(*              (Examples/Source/SimpleXInputBackend.cpp) polled beside    *)
(*              the built-in backend with the same vendor answer.          *)
(***************************************************************************)
EXTENDS Integers, Sequences, FiniteSets, TLC

VARIABLES
  config,                      \* configured plugin filenames, in order
  isInitialized,               \* static bool of LoadConfiguredPlugins
  loadedPluginsFlag,           \* std::once_flag: "idle" | "active" | "done"
  loadedPluginsByTypeAndName,  \* plugin type -> set of (name, interface) entries
  moduleRefs,                  \* filename -> reference count of the loaded module
  pc,                          \* call -> position in LoadConfiguredPlugins
  pluginToLoad,                \* call -> position in config of the load loop
  i,                           \* call -> loop index of LoadSinglePlugin
  countCalls,                  \* call -> calls of the count function for this module
  plugin,                      \* call -> interface pointer held by the loop body
  log,                         \* messages written through Infra::Message
  trace,                       \* calls the registry made into the system and the modules
  loadRuns,                    \* executions of the load body begun
  lastLookup,                  \* last GetPhysicalControllerBackendInterface call
  vendorResult,                \* DWORD returned by XInputGetState
  xinputState,                 \* contents of the XINPUT_STATE buffer
  physState,                   \* last value returned by ReadInputState
  exampleState,                \* last value returned by the example plugin's ReadInputState
  guidAndPath,                 \* identity string handed to SupportsControllerByGuidAndPath
  supportsResult,              \* what SupportsControllerByGuidAndPath returned
  caps,                        \* an SPhysicalCapabilities object
  capsWrites,                  \* assignments made through its operator[]
  lastWrite,                   \* the last of them: which set, which index, what value
  reportedCaps,                \* what GetCapabilities returned when last called
  physicalControllerIndex,     \* controller WriteForceFeedbackState is called for
  vibrationState,              \* SForceFeedbackState handed to WriteForceFeedbackState
  setStateCall,                \* arguments XInputSetState was called with
  setStateResult,              \* DWORD returned by XInputSetState
  writeResult                  \* what WriteForceFeedbackState returned

registryVars == <<config, isInitialized, loadedPluginsFlag, loadedPluginsByTypeAndName,
                  moduleRefs, pc, pluginToLoad, i, countCalls, plugin, log, trace,
                  loadRuns, lastLookup>>
readVars == <<vendorResult, xinputState, physState, exampleState>>
identityVars == <<guidAndPath, supportsResult>>
capabilitiesVars == <<caps, capsWrites, lastWrite, reportedCaps>>
forceFeedbackVars == <<physicalControllerIndex, vibrationState, setStateCall,
                       setStateResult, writeResult>>
backendVars == <<readVars, identityVars, capabilitiesVars, forceFeedbackVars>>
vars == <<registryVars, backendVars>>

(***************************************************************************)
(* Bounds of the model.                                                    *)
(***************************************************************************)
NumThreads == 2
MaxFiles == 3
MaxCalls == 2
MaxLookupFiles == 2

\* The calls of LoadConfiguredPlugins, numbered in the order they begin. Each call
\* runs on a thread of its own until it returns; at most NumThreads threads exist.
Calls == 1..MaxCalls

(***************************************************************************)
(* Strings are sequences of character codes.                               *)
(***************************************************************************)
StrFoo == <<70, 111, 111>>
StrFooLower == <<102, 111, 111>>
StrFooUpper == <<70, 79, 79>>
StrFo == <<70, 111>>
StrBar == <<66, 97, 114>>
StrBarLower == <<98, 97, 114>>
StrBaz == <<66, 97, 122>>
StrQux == <<81, 117, 120>>

\* towlower on the characters the names use.
ToLower(c) == IF c >= 65 /\ c <= 90 THEN c + 32 ELSE c

RECURSIVE LessFrom(_, _, _)
LessFrom(a, b, k) ==
  IF k > Len(b) THEN FALSE
  ELSE IF k > Len(a) THEN TRUE
  ELSE IF ToLower(a[k]) < ToLower(b[k]) THEN TRUE
  ELSE IF ToLower(a[k]) > ToLower(b[k]) THEN FALSE
  ELSE LessFrom(a, b, k + 1)

\* Infra::Strings::CaseInsensitiveLessThanComparator<wchar_t>.
CaseInsensitiveLessThan(a, b) == LessFrom(a, b, 1)

(***************************************************************************)
(* std::map<std::wstring, IPlugin*, CaseInsensitiveLessThanComparator>.    *)
(* A map is the set of its (name, iface) entries; two keys are the same    *)
(* key when neither is less than the other.                                *)
(***************************************************************************)
EPluginTypeCount == 1
PhysicalControllerBackend == 0

NullPtr == [pos |-> 0, idx |-> 0]

KeyEquivalent(a, b) == ~CaseInsensitiveLessThan(a, b) /\ ~CaseInsensitiveLessThan(b, a)

MapContains(map, name) == \E e \in map : KeyEquivalent(e.name, name)

\* Variant of the registration: insert_or_assign, the newcomer replaces the entry.
MapInsertOrAssign(map, name, iface) ==
  [map |-> {e \in map : ~KeyEquivalent(e.name, name)} \cup {[name |-> name, iface |-> iface]},
   second |-> ~MapContains(map, name)]

\* Variant of the registration: the emplace of a std::multimap, which always inserts.
MapEmplaceMulti(map, name, iface) ==
  [map |-> map \cup {[name |-> name, iface |-> iface]}, second |-> TRUE]

\* std::map::emplace: .first is the map afterwards, .second whether it inserted.
MapEmplace(map, name, iface) ==
  IF MapContains(map, name)
    THEN [map |-> map, second |-> FALSE]
    ELSE [map |-> map \cup {[name |-> name, iface |-> iface]}, second |-> TRUE]

\* Variants of the lookup: a find that compares the characters exactly, and a
\* lower_bound used without the equality test.
MapFindExactCase(map, name) ==
  IF \E e \in map : e.name = name
    THEN (CHOOSE e \in map : e.name = name).iface
    ELSE NullPtr
MapFindLowerBound(map, name) ==
  LET notLess == {e \in map : ~CaseInsensitiveLessThan(e.name, name)} IN
    IF notLess = {} THEN NullPtr
    ELSE (CHOOSE e \in notLess :
            \A o \in notLess : ~CaseInsensitiveLessThan(o.name, e.name)).iface

\* std::map::find followed by the cend() test of the accessor.
MapFind(map, name) ==
  IF MapContains(map, name)
    THEN (CHOOSE e \in map : KeyEquivalent(e.name, name)).iface
    ELSE NullPtr

(***************************************************************************)
(* The plugin modules the configuration can name: what LoadLibraryW,       *)
(* GetProcAddress and the module's two entry points answer.                *)
(*   counts  the values XidiPluginGetCount returns, call after call (the   *)
(*           last one repeats)                                             *)
(*   ifaces  what XidiPluginGetInterface(k) returns for k = 0, 1, ...      *)
(*           (null beyond the end)                                         *)
(***************************************************************************)
NullIface == [null |-> TRUE, type |-> 0, name |-> <<>>]
Iface(t, n) == [null |-> FALSE, type |-> t, name |-> n]

Filenames == {"missing.dll", "nocount.dll", "noget.dll", "a.dll", "b.dll"}

\* The modules configured where lookups run beside the load.
LookupFilenames == {"missing.dll", "noget.dll", "a.dll", "b.dll"}

\* Modules that differ in the number of interfaces they report; two of them report
\* a number that changes from one call of the count function to the next.
EnumFilenames == {"a.dll", "zero.dll", "negative.dll", "grows.dll", "shrinks.dll"}

Module(f) ==
  CASE f = "missing.dll" ->
         [loads |-> FALSE, hasCount |-> FALSE, hasGet |-> FALSE,
          counts |-> <<0>>, ifaces |-> <<>>]
    [] f = "nocount.dll" ->
         [loads |-> TRUE, hasCount |-> FALSE, hasGet |-> TRUE,
          counts |-> <<1>>, ifaces |-> <<Iface(PhysicalControllerBackend, StrQux)>>]
    [] f = "noget.dll" ->
         [loads |-> TRUE, hasCount |-> TRUE, hasGet |-> FALSE,
          counts |-> <<1>>, ifaces |-> <<Iface(PhysicalControllerBackend, StrQux)>>]
    [] f = "zero.dll" ->
         [loads |-> TRUE, hasCount |-> TRUE, hasGet |-> TRUE,
          counts |-> <<0>>, ifaces |-> <<Iface(PhysicalControllerBackend, StrQux)>>]
    [] f = "negative.dll" ->
         [loads |-> TRUE, hasCount |-> TRUE, hasGet |-> TRUE,
          counts |-> <<-1>>, ifaces |-> <<Iface(PhysicalControllerBackend, StrQux)>>]
    [] f = "grows.dll" ->
         [loads |-> TRUE, hasCount |-> TRUE, hasGet |-> TRUE,
          counts |-> <<1, 3>>,
          ifaces |-> <<Iface(PhysicalControllerBackend, StrQux),
                       Iface(PhysicalControllerBackend, StrBaz),
                       Iface(PhysicalControllerBackend, StrBarLower)>>]
    [] f = "shrinks.dll" ->
         [loads |-> TRUE, hasCount |-> TRUE, hasGet |-> TRUE,
          counts |-> <<3, 1>>,
          ifaces |-> <<Iface(PhysicalControllerBackend, StrQux),
                       Iface(PhysicalControllerBackend, StrBaz),
                       Iface(PhysicalControllerBackend, StrBarLower)>>]
    [] f = "a.dll" ->
         [loads |-> TRUE, hasCount |-> TRUE, hasGet |-> TRUE,
          counts |-> <<3>>,
          ifaces |-> <<Iface(PhysicalControllerBackend, StrFoo),
                       NullIface,
                       Iface(PhysicalControllerBackend, StrBar)>>]
    [] f = "b.dll" ->
         [loads |-> TRUE, hasCount |-> TRUE, hasGet |-> TRUE,
          counts |-> <<3>>,
          ifaces |-> <<Iface(PhysicalControllerBackend, StrFooLower),
                       Iface(EPluginTypeCount, StrBaz),
                       Iface(PhysicalControllerBackend, StrFooUpper)>>]

\* HMODULE LoadLibraryW(pluginFilename): NULL or a handle.
LoadLibraryW(f) == Module(f).loads

\* GetProcAddress(pluginHandle, name): NULL or the entry point.
GetProcAddress(f, proc) ==
  IF proc = "XidiPluginGetCount" THEN Module(f).hasCount ELSE Module(f).hasGet

\* xidiPluginGetCountProc(), on its n-th call for this module.
XidiPluginGetCount(f, n) ==
  LET c == Module(f).counts IN IF n <= Len(c) THEN c[n] ELSE c[Len(c)]

\* xidiPluginGetInterfaceProc(k): the interface object, null beyond the end.
XidiPluginGetInterface(f, k) ==
  LET s == Module(f).ifaces IN IF k >= 0 /\ k < Len(s) THEN s[k + 1] ELSE NullIface

\* The pointer the module hands out at index k when loaded from position p.
InterfacePtr(p, k) == [pos |-> p, idx |-> k]

\* The interface object a non-null pointer designates.
Deref(ptr) == XidiPluginGetInterface(config[ptr.pos], ptr.idx)

(***************************************************************************)
(* Messages of severity Info, in the order they are written.               *)
(***************************************************************************)
Msg(kind, p, k) == [kind |-> kind, pos |-> p, idx |-> k]

\* A call LoadSinglePlugin makes while it processes position p of the configuration:
\* into the system (LoadLibraryW, GetProcAddress, FreeLibrary), into the module's
\* entry points, or into the interface at index k (a method of IPlugin).
Call(op, p, k) == [op |-> op, pos |-> p, idx |-> k]

LookupNames == {StrFooUpper, StrBarLower, StrFo}

NoLookup == [valid |-> FALSE, name |-> <<>>, result |-> NullPtr, raced |-> FALSE]

(***************************************************************************)
(* Vendor data of the backend (defined here because Init fixes it).        *)
(***************************************************************************)
ERROR_SUCCESS == 0
ERROR_DEVICE_NOT_CONNECTED == 1167

Gamepad(buttons, sticks, triggers) ==
  [wButtons |-> buttons, sThumb |-> sticks, bTrigger |-> triggers]

\* Extreme readings of an analog stick (PhysicalControllerTypes.h).
kAnalogValueMax == 32767
kAnalogValueMin == -kAnalogValueMax

\* A value-initialized SPhysicalState with the given status.
DefaultState(status) ==
  [deviceStatus |-> status, stick |-> <<0, 0, 0, 0>>, trigger |-> <<0, 0>>, button |-> 0]

NoRead == DefaultState("none")

\* SupportsControllerByGuidAndPath has not been called.
NotAsked == [called |-> FALSE, value |-> FALSE]

\* A value-initialized SPhysicalCapabilities: four bit-sets, each held as the
\* unsigned word std::bitset stores.
DefaultCapabilities == [stick |-> 0, trigger |-> 0, button |-> 0, forceFeedbackActuator |-> 0]

\* No assignment through operator[] has been made.
NoWrite == [kind |-> "none", idx |-> 0, value |-> FALSE]

\* GetCapabilities has not been called.
NotReported == [called |-> FALSE, value |-> DefaultCapabilities]

\* SForceFeedbackState, and the XINPUT_VIBRATION handed to XInputSetState together
\* with the user index.
ForceFeedbackState(left, right, leftImpulse, rightImpulse) ==
  [leftMotor |-> left, rightMotor |-> right,
   leftImpulseTrigger |-> leftImpulse, rightImpulseTrigger |-> rightImpulse]
SetStateArgs(index, left, right) ==
  [dwUserIndex |-> index, wLeftMotorSpeed |-> left, wRightMotorSpeed |-> right]

\* WriteForceFeedbackState has not been called.
NotWritten == [called |-> FALSE, value |-> FALSE]

(***************************************************************************)
(* The registry.                                                           *)
(***************************************************************************)
RECURSIVE SeqsUpTo(_, _)
SeqsUpTo(S, n) ==
  IF n = 0 THEN {<<>>}
  ELSE LET shorter == SeqsUpTo(S, n - 1)
       IN shorter \cup {Append(s, x) : s \in {q \in shorter : Len(q) = n - 1}, x \in S}

InitRegistry ==
  /\ isInitialized = FALSE
  /\ loadedPluginsFlag = "idle"
  /\ loadedPluginsByTypeAndName = [t \in 0..(EPluginTypeCount - 1) |-> {}]
  /\ moduleRefs = [f \in Filenames \cup EnumFilenames |-> 0]
  /\ pc = [t \in Calls |-> "notyet"]
  /\ pluginToLoad = [t \in Calls |-> 0]
  /\ i = [t \in Calls |-> 0]
  /\ countCalls = [t \in Calls |-> 0]
  /\ plugin = [t \in Calls |-> NullPtr]
  /\ log = <<>>
  /\ trace = <<>>
  /\ loadRuns = 0
  /\ lastLookup = NoLookup

InitReadIdle ==
  /\ vendorResult = ERROR_SUCCESS
  /\ xinputState = Gamepad(0, <<0, 0, 0, 0>>, <<0, 0>>)
  /\ physState = NoRead
  /\ exampleState = NoRead

InitIdentityIdle ==
  /\ guidAndPath = <<>>
  /\ supportsResult = NotAsked

InitCapabilitiesIdle ==
  /\ caps = DefaultCapabilities
  /\ capsWrites = 0
  /\ lastWrite = NoWrite
  /\ reportedCaps = NotReported

InitForceFeedbackIdle ==
  /\ physicalControllerIndex = 0
  /\ vibrationState = ForceFeedbackState(0, 0, 0, 0)
  /\ setStateCall = SetStateArgs(0, 0, 0)
  /\ setStateResult = ERROR_SUCCESS
  /\ writeResult = NotWritten

InitBackendIdle ==
  /\ InitReadIdle
  /\ InitIdentityIdle
  /\ InitCapabilitiesIdle
  /\ InitForceFeedbackIdle

Init ==
  /\ config \in SeqsUpTo(Filenames, MaxFiles)
  /\ InitRegistry
  /\ InitBackendIdle

\* What std::call_once does with the flag in the given state.
CallOnceAlwaysExecutes(flag) == "execute"
CallOnceNeverWaits(flag) == IF flag = "idle" THEN "execute" ELSE "return"
CallOnce(flag) ==
  IF flag = "idle" THEN "execute"
  ELSE IF flag = "active" THEN "wait"
  ELSE "return"

\* Variant: LoadConfiguredPlugins records that the load is over once std::call_once
\* has returned.
AfterCallOnceSetsFlag(flag) == TRUE

\* The value of isInitialized when LoadConfiguredPlugins returns after
\* std::call_once: the function ends there and assigns nothing.
AfterCallOnce(flag) == flag

\* Calls begun, calls returned, calls in progress (each occupies a thread).
calls == Cardinality({c \in Calls : pc[c] # "notyet"})
returns == Cardinality({c \in Calls : pc[c] = "returned"})
InProgress == {c \in Calls : pc[c] \notin {"notyet", "returned"}}

\* A thread calls LoadConfiguredPlugins: the flag test, then std::call_once.
LoadConfiguredPlugins(t) ==
  /\ pc[t] = "notyet"
  /\ t = calls + 1
  /\ Cardinality(InProgress) < NumThreads
  /\ IF isInitialized
       THEN /\ pc' = [pc EXCEPT ![t] = "returned"]
            /\ UNCHANGED <<isInitialized, loadedPluginsFlag, pluginToLoad, loadRuns>>
       ELSE CASE CallOnce(loadedPluginsFlag) = "execute" ->
                   /\ loadedPluginsFlag' = "active"
                   /\ pc' = [pc EXCEPT ![t] = "loop"]
                   /\ pluginToLoad' = [pluginToLoad EXCEPT ![t] = 1]
                   /\ loadRuns' = loadRuns + 1
                   /\ UNCHANGED isInitialized
              [] CallOnce(loadedPluginsFlag) = "wait" ->
                   /\ pc' = [pc EXCEPT ![t] = "blocked"]
                   /\ UNCHANGED <<isInitialized, loadedPluginsFlag, pluginToLoad, loadRuns>>
              [] OTHER ->
                   /\ pc' = [pc EXCEPT ![t] = "returned"]
                   /\ isInitialized' = AfterCallOnce(isInitialized)
                   /\ UNCHANGED <<loadedPluginsFlag, pluginToLoad, loadRuns>>
  /\ UNCHANGED <<config, loadedPluginsByTypeAndName, moduleRefs, i,
                 countCalls, plugin, log, trace, lastLookup, backendVars>>

\* A caller blocked in std::call_once returns once the active execution has ended.
CallOnceWaitReturn(t) ==
  /\ pc[t] = "blocked"
  /\ loadedPluginsFlag = "done"
  /\ pc' = [pc EXCEPT ![t] = "returned"]
  /\ isInitialized' = AfterCallOnce(isInitialized)
  /\ UNCHANGED <<config, loadedPluginsFlag, loadedPluginsByTypeAndName,
                 moduleRefs, pluginToLoad, i, countCalls, plugin, log, trace, loadRuns,
                 lastLookup, backendVars>>

\* The range-for of the load body is exhausted: the lambda returns, std::call_once
\* marks the flag and LoadConfiguredPlugins returns.
LoadBodyEnd(t) ==
  /\ pc[t] = "loop"
  /\ pluginToLoad[t] > Len(config)
  /\ loadedPluginsFlag' = "done"
  /\ pc' = [pc EXCEPT ![t] = "returned"]
  /\ pluginToLoad' = [pluginToLoad EXCEPT ![t] = 0]
  /\ isInitialized' = AfterCallOnce(isInitialized)
  /\ UNCHANGED <<config, loadedPluginsByTypeAndName, moduleRefs, i,
                 countCalls, plugin, log, trace, loadRuns, lastLookup, backendVars>>

\* Variant: leaving LoadSinglePlugin ends the whole range-for.
AbortFiles(t) ==
  /\ pc' = [pc EXCEPT ![t] = "loop"]
  /\ pluginToLoad' = [pluginToLoad EXCEPT ![t] = Len(config) + 1]

InitLookup ==
  /\ config \in SeqsUpTo(LookupFilenames, MaxLookupFiles)
  /\ InitRegistry
  /\ InitBackendIdle

InitEnumerate ==
  /\ config \in SeqsUpTo(EnumFilenames, MaxFiles)
  /\ InitRegistry
  /\ InitBackendIdle

\* Variant: the range-for steps over the filename that follows.
NextFileSkipsOne(t) ==
  /\ pc' = [pc EXCEPT ![t] = "loop"]
  /\ pluginToLoad' = [pluginToLoad EXCEPT ![t] = @ + 2]

\* Variant: the range-for stays on the filename it has just processed.
NextFileRetries(t) ==
  /\ pc' = [pc EXCEPT ![t] = "loop"]
  /\ UNCHANGED pluginToLoad

\* Leaving LoadSinglePlugin: the range-for moves to the next configured filename.
NextFile(t) ==
  /\ pc' = [pc EXCEPT ![t] = "loop"]
  /\ pluginToLoad' = [pluginToLoad EXCEPT ![t] = @ + 1]

\* The outcome of LoadSinglePlugin up to the for loop: LoadLibraryW and its NULL
\* test, then GetProcAddress for each entry point and its NULL test.
ModuleOutcome(f) ==
  IF ~LoadLibraryW(f) THEN "load failed"
  ELSE IF ~GetProcAddress(f, "XidiPluginGetCount") THEN "no XidiPluginGetCount"
  ELSE IF ~GetProcAddress(f, "XidiPluginGetInterface") THEN "no XidiPluginGetInterface"
  ELSE "loaded"

\* Variant: the early returns for a missing entry point leave the module loaded.
ModuleCallsWithoutUnload(f, p) ==
  LET load == <<Call("LoadLibraryW", p, 0)>>
      getCount == <<Call("GetProcAddress XidiPluginGetCount", p, 0)>>
      getGet == <<Call("GetProcAddress XidiPluginGetInterface", p, 0)>>
  IN IF ~LoadLibraryW(f) THEN load
     ELSE IF ~GetProcAddress(f, "XidiPluginGetCount") THEN load \o getCount
     ELSE load \o getCount \o getGet

\* The calls LoadSinglePlugin makes from its entry to the for loop, in order, for
\* the module at position p: each GetProcAddress follows the NULL test of the call
\* before it, and a module that loaded and lacks an entry point is released.
ModuleCalls(f, p) ==
  LET load == <<Call("LoadLibraryW", p, 0)>>
      getCount == <<Call("GetProcAddress XidiPluginGetCount", p, 0)>>
      getGet == <<Call("GetProcAddress XidiPluginGetInterface", p, 0)>>
      free == <<Call("FreeLibrary", p, 0)>>
  IN IF ~LoadLibraryW(f) THEN load
     ELSE IF ~GetProcAddress(f, "XidiPluginGetCount") THEN load \o getCount \o free
     ELSE IF ~GetProcAddress(f, "XidiPluginGetInterface")
       THEN load \o getCount \o getGet \o free
     ELSE load \o getCount \o getGet

\* LoadSinglePlugin from its entry to the for loop. A module that loaded and lacks
\* an entry point is released with FreeLibrary before the return.
LoadModuleStep(t) ==
  /\ pc[t] = "loop"
  /\ pluginToLoad[t] <= Len(config)
  /\ LET f == config[pluginToLoad[t]]
         outcome == ModuleOutcome(f)
     IN /\ log' = Append(log, Msg(outcome, pluginToLoad[t], 0))
        /\ trace' = trace \o ModuleCalls(f, pluginToLoad[t])
        /\ IF outcome = "loaded"
             THEN /\ moduleRefs' = [moduleRefs EXCEPT ![f] = @ + 1]
                  /\ i' = [i EXCEPT ![t] = 0]
                  /\ countCalls' = [countCalls EXCEPT ![t] = 0]
                  /\ pc' = [pc EXCEPT ![t] = "for"]
                  /\ UNCHANGED pluginToLoad
             ELSE /\ NextFile(t)
                  /\ UNCHANGED <<moduleRefs, i, countCalls>>
  /\ UNCHANGED <<config, isInitialized, loadedPluginsFlag, loadedPluginsByTypeAndName,
                 plugin, loadRuns, lastLookup, backendVars>>

\* Variant: the tag test lets the sentinel value Count itself pass.
UnrecognizedTypeAboveCount(type) == type > EPluginTypeCount

\* The tag test of the loop body: static_cast<unsigned int>(pluginType) >= Count.
UnrecognizedType(type) == type >= EPluginTypeCount

\* Variant: the count is taken once, before the loop, and kept as the bound.
LoopBoundHoisted(f, n) == XidiPluginGetCount(f, 1)

\* The bound the loop condition compares i with at its n-th evaluation: the value
\* the call xidiPluginGetCountProc() made in that evaluation returns.
LoopBound(f, n) == XidiPluginGetCount(f, n)

\* Variant: the loop runs while i <= count.
LoopConditionInclusive(k, count) == k <= count

\* The loop condition i < xidiPluginGetCountProc(), given what the call returned.
LoopCondition(k, count) == k < count

\* Variant: the loop body initializes every interface it is about to register.
BodyCallsInitializing(f, p, k) ==
  LET obj == XidiPluginGetInterface(f, k)
      fetch == <<Call("XidiPluginGetInterface", p, k)>>
  IN IF obj.null THEN fetch
     ELSE IF UnrecognizedType(obj.type) THEN Append(fetch, Call("PluginType", p, k))
     ELSE fetch \o <<Call("PluginType", p, k), Call("PluginName", p, k),
                     Call("Initialize", p, k)>>

\* The calls one pass of the loop body makes for index k, up to the registration:
\* the interface is fetched, and its methods are called only past the null test
\* (PluginType) and past the tag test (PluginName).
BodyCalls(f, p, k) ==
  LET obj == XidiPluginGetInterface(f, k)
      fetch == <<Call("XidiPluginGetInterface", p, k)>>
  IN IF obj.null THEN fetch
     ELSE IF UnrecognizedType(obj.type) THEN Append(fetch, Call("PluginType", p, k))
     ELSE fetch \o <<Call("PluginType", p, k), Call("PluginName", p, k)>>

\* Variant: LoadSinglePlugin releases the module when the enumeration is over.
ReturnAfterLoopUnloads(t) ==
  /\ NextFile(t)
  /\ moduleRefs' = [moduleRefs EXCEPT ![config[pluginToLoad[t]]] = @ - 1]

\* The end of LoadSinglePlugin once the loop condition fails: the function returns
\* and pluginHandle goes out of scope with no FreeLibrary, so the module stays
\* loaded.
ReturnAfterLoop(t) ==
  /\ NextFile(t)
  /\ UNCHANGED moduleRefs

\* Variant: the two early exits of the loop body leave the loop.
ContinueAsBreak(t) ==
  /\ NextFile(t)
  /\ UNCHANGED <<i, plugin>>

\* The continue statement of the loop body: on to ++i and the loop condition.
Continue(t) ==
  /\ i' = [i EXCEPT ![t] = @ + 1]
  /\ UNCHANGED <<pc, pluginToLoad, plugin>>

\* One evaluation of the loop condition i < xidiPluginGetCountProc() and, when it
\* holds, the loop body up to the registration: fetch the interface, test for null,
\* test the tag.
ForStep(t) ==
  /\ pc[t] = "for"
  /\ countCalls' = [countCalls EXCEPT ![t] = @ + 1]
  /\ LET f == config[pluginToLoad[t]]
         obj == XidiPluginGetInterface(f, i[t])
         continues == LoopCondition(i[t], LoopBound(f, countCalls[t] + 1))
     IN /\ trace' = Append(trace, Call("XidiPluginGetCount", pluginToLoad[t], i[t]))
                      \o (IF continues THEN BodyCalls(f, pluginToLoad[t], i[t]) ELSE <<>>)
        /\ IF ~continues
          THEN /\ ReturnAfterLoop(t)
               /\ UNCHANGED <<log, i, plugin>>
          ELSE IF obj.null \/ UnrecognizedType(obj.type)
            THEN /\ log' = Append(log, Msg(IF obj.null THEN "null" ELSE "unrecognized type",
                                           pluginToLoad[t], i[t]))
                 /\ Continue(t)
                 /\ UNCHANGED moduleRefs
            ELSE /\ plugin' = [plugin EXCEPT ![t] = InterfacePtr(pluginToLoad[t], i[t])]
                 /\ pc' = [pc EXCEPT ![t] = "emplace"]
                 /\ UNCHANGED <<log, i, pluginToLoad, moduleRefs>>
  /\ UNCHANGED <<config, isInitialized, loadedPluginsFlag, loadedPluginsByTypeAndName,
                 loadRuns, lastLookup, backendVars>>

\* Variant: the message reports every registration as successful.
RegistrationOutcomeAlwaysSuccess(pluginRegistrationSucceeded) == "registered"

\* The text the message after the registration ends with: "successfully
\* registered" or "failed to register due to a name collision".
RegistrationOutcome(pluginRegistrationSucceeded) ==
  IF pluginRegistrationSucceeded THEN "registered" ELSE "collision"

\* The registration: emplace into the table of the interface's type, the message
\* with the outcome, and the loop increment.
EmplaceStep(t) ==
  /\ pc[t] = "emplace"
  /\ LET obj == Deref(plugin[t])
         r == MapEmplace(loadedPluginsByTypeAndName[obj.type], obj.name, plugin[t])
     IN /\ loadedPluginsByTypeAndName' =
             [loadedPluginsByTypeAndName EXCEPT ![obj.type] = r.map]
        /\ log' = Append(log, Msg(RegistrationOutcome(r.second), pluginToLoad[t], i[t]))
  /\ i' = [i EXCEPT ![t] = @ + 1]
  /\ plugin' = [plugin EXCEPT ![t] = NullPtr]
  /\ pc' = [pc EXCEPT ![t] = "for"]
  /\ UNCHANGED <<config, isInitialized, loadedPluginsFlag, moduleRefs, pluginToLoad,
                 countCalls, trace, loadRuns, lastLookup, backendVars>>

\* Calls that are inside the table write.
Writers == {u \in Calls : pc[u] = "emplace"}

\* What a lookup can return: the found entry, or, when the unsynchronised read
\* overlaps a write of the table by another thread, any pointer it may come across.
LookupOutcomes(name) ==
  LET map == loadedPluginsByTypeAndName[PhysicalControllerBackend] IN
    IF Writers = {}
      THEN {MapFind(map, name)}
      ELSE {NullPtr} \cup {e.iface : e \in map} \cup {plugin[u] : u \in Writers}

\* The map after the accessor has run: find() does not modify it.
MapAfterSubscript(map, name) ==
  IF MapContains(map, name) THEN map ELSE map \cup {[name |-> name, iface |-> NullPtr]}
MapAfterFind(map, name) == map

\* A thread that is not inside LoadConfiguredPlugins looks a backend up by name.
GetPhysicalControllerBackendInterface(name) ==
  /\ Cardinality(InProgress) < NumThreads
  /\ \E r \in LookupOutcomes(name) :
       lastLookup' = [valid |-> TRUE, name |-> name, result |-> r, raced |-> Writers # {}]
  /\ loadedPluginsByTypeAndName' =
       [loadedPluginsByTypeAndName EXCEPT
          ![PhysicalControllerBackend] = MapAfterFind(@, name)]
  /\ UNCHANGED <<config, isInitialized, loadedPluginsFlag, moduleRefs, pc, pluginToLoad,
                 i, countCalls, plugin, log, trace, loadRuns, backendVars>>

Next ==
  \/ \E t \in Calls : LoadConfiguredPlugins(t)
  \/ \E t \in Calls : CallOnceWaitReturn(t)
  \/ \E t \in Calls : LoadBodyEnd(t)
  \/ \E t \in Calls : LoadModuleStep(t)
  \/ \E t \in Calls : ForStep(t)
  \/ \E t \in Calls : EmplaceStep(t)

Spec == Init /\ [][Next]_vars

NextLookup ==
  \/ Next
  \/ \E name \in LookupNames : GetPhysicalControllerBackendInterface(name)

SpecLookup == InitLookup /\ [][NextLookup]_vars

SpecEnumerate == InitEnumerate /\ [][Next]_vars

(***************************************************************************)
(* The built-in XInput backend: ReadInputState.                            *)
(***************************************************************************)
RECURSIVE Pow2(_)
Pow2(n) == IF n = 0 THEN 1 ELSE 2 * Pow2(n - 1)

\* Bit k of the unsigned value x.
Bit(x, k) == (x \div Pow2(k)) % 2

RECURSIVE BitAndFrom(_, _, _)
BitAndFrom(a, b, k) ==
  IF k = 16 THEN 0
  ELSE (IF Bit(a, k) = 1 /\ Bit(b, k) = 1 THEN Pow2(k) ELSE 0) + BitAndFrom(a, b, k + 1)

RECURSIVE BitOrFrom(_, _, _)
BitOrFrom(a, b, k) ==
  IF k = 16 THEN 0
  ELSE (IF Bit(a, k) = 1 \/ Bit(b, k) = 1 THEN Pow2(k) ELSE 0) + BitOrFrom(a, b, k + 1)

\* a & b, a | b and ~a on uint16_t.
BitAnd16(a, b) == BitAndFrom(a, b, 0)
BitOr16(a, b) == BitOrFrom(a, b, 0)
BitNot16(a) == (Pow2(16) - 1) - (a % Pow2(16))

\* Variant of the enumeration: the two unused buttons declared after the used ones.
EPhysicalButtonUnusedLast ==
  <<"DpadUp", "DpadDown", "DpadLeft", "DpadRight", "Start", "Back", "LS", "RS", "LB", "RB",
    "A", "B", "X", "Y", "UnusedGuide", "UnusedShare">>

\* enum class EPhysicalButton: the enumerators in declaration order, the first
\* having value 0.
EPhysicalButton ==
  <<"DpadUp", "DpadDown", "DpadLeft", "DpadRight", "Start", "Back", "LS", "RS", "LB", "RB",
    "UnusedGuide", "UnusedShare", "A", "B", "X", "Y">>

\* static_cast<int>(EPhysicalButton::name).
ButtonValue(name) ==
  (CHOOSE k \in 1..Len(EPhysicalButton) : EPhysicalButton[k] = name) - 1

\* The XINPUT_GAMEPAD_* button masks of the vendor API the static assertions
\* compare the enumerators with.
XINPUT_GAMEPAD ==
  [DpadUp |-> 1, DpadDown |-> 2, DpadLeft |-> 4, DpadRight |-> 8, Start |-> 16, Back |-> 32,
   LS |-> 64, RS |-> 128, LB |-> 256, RB |-> 512, A |-> 4096, B |-> 8192, X |-> 16384,
   Y |-> 32768]

\* EPhysicalButton enumerators of the two buttons XInput does not report.
UnusedGuide == 10
UnusedShare == 11

\* constexpr uint16_t kUnusedButtonMask of ReadInputState.
kUnusedButtonMask == BitNot16(BitOr16(Pow2(UnusedGuide), Pow2(UnusedShare)))

\* Variants of ReadInputState: one that copies wButtons without the mask, one that
\* fills the fields from the buffer whatever the result.
ReadInputStateUnmasked(result, state) ==
  IF result = ERROR_SUCCESS
    THEN [deviceStatus |-> "Ok", stick |-> state.sThumb, trigger |-> state.bTrigger,
          button |-> state.wButtons % Pow2(16)]
  ELSE IF result = ERROR_DEVICE_NOT_CONNECTED
    THEN DefaultState("NotConnected")
  ELSE DefaultState("Error")
ReadInputStateCopiesAlways(result, state) ==
  [deviceStatus |-> IF result = ERROR_SUCCESS THEN "Ok"
                    ELSE IF result = ERROR_DEVICE_NOT_CONNECTED THEN "NotConnected"
                    ELSE "Error",
   stick |-> state.sThumb,
   trigger |-> state.bTrigger,
   button |-> BitAnd16(state.wButtons, kUnusedButtonMask) % Pow2(16)]

\* The value PhysicalControllerBackendXInput::ReadInputState returns when
\* XInputGetState returned `result` and left `state` in the buffer.
ReadInputState(result, state) ==
  IF result = ERROR_SUCCESS
    THEN [deviceStatus |-> "Ok",
          stick |-> state.sThumb,
          trigger |-> state.bTrigger,
          button |-> BitAnd16(state.wButtons, kUnusedButtonMask) % Pow2(16)]
  ELSE IF result = ERROR_DEVICE_NOT_CONNECTED
    THEN DefaultState("NotConnected")
  ELSE DefaultState("Error")

\* Vendor results and buffer contents the model draws from: success, not
\* connected, and two other codes (ERROR_INVALID_FUNCTION, ERROR_ACCESS_DENIED).
ResultSamples == {ERROR_SUCCESS, ERROR_DEVICE_NOT_CONNECTED, 1, 5}
ButtonSamples == {0, 3072, 3073, 62463, 65535} \cup {Pow2(k) : k \in 0..15}
StickSamples == {<<0, 0, 0, 0>>, <<100, -200, 300, -400>>, <<-32768, 32767, -1, 1>>}
TriggerSamples == {<<0, 0>>, <<10, 20>>, <<255, 128>>}
GamepadSamples ==
  {Gamepad(b, s, t) : b \in ButtonSamples, s \in StickSamples, t \in TriggerSamples}

InitBackend ==
  /\ config = <<>>
  /\ InitRegistry
  /\ InitBackendIdle

\* One poll: XInputGetState answers and ReadInputState maps the answer.
ReadInputStateCall ==
  /\ \E r \in ResultSamples, g \in GamepadSamples :
       /\ vendorResult' = r
       /\ xinputState' = g
       /\ physState' = ReadInputState(r, g)
  /\ UNCHANGED <<registryVars, identityVars, capabilitiesVars, forceFeedbackVars, exampleState>>

NextBackend == ReadInputStateCall

SpecBackend == InitBackend /\ [][NextBackend]_vars

(***************************************************************************)
(* The built-in XInput backend: SupportsControllerByGuidAndPath.           *)
(***************************************************************************)
MaxPathLen == 5

\* L"&IG_" and L"&ig_".
StrMarkerUpper == <<38, 73, 71, 95>>
StrMarkerLower == <<38, 105, 103, 95>>

\* wcsstr(haystack, needle): the position of the first occurrence, 0 for NULL.
Wcsstr(haystack, needle) ==
  LET found == {k \in 1..(Len(haystack) - Len(needle) + 1) :
                  SubSeq(haystack, k, k + Len(needle) - 1) = needle}
  IN IF found = {} THEN 0 ELSE CHOOSE k \in found : \A o \in found : k <= o

\* PhysicalControllerBackendXInput::SupportsControllerByGuidAndPath.
SupportsControllerByGuidAndPath(path) ==
  Wcsstr(path, StrMarkerUpper) # 0 \/ Wcsstr(path, StrMarkerLower) # 0

\* The characters identity strings are made of: & I i G g _ and X.
PathChars == {38, 73, 105, 71, 103, 95, 88}
PathSamples == SeqsUpTo(PathChars, MaxPathLen)

InitIdentity ==
  /\ config = <<>>
  /\ InitRegistry
  /\ InitReadIdle
  /\ InitCapabilitiesIdle
  /\ InitForceFeedbackIdle
  /\ guidAndPath \in PathSamples
  /\ supportsResult = NotAsked

\* The host asks the backend whether it handles the device.
SupportsControllerCall ==
  /\ ~supportsResult.called
  /\ supportsResult' = [called |-> TRUE, value |-> SupportsControllerByGuidAndPath(guidAndPath)]
  /\ UNCHANGED <<registryVars, readVars, capabilitiesVars, forceFeedbackVars, guidAndPath>>

NextIdentity == SupportsControllerCall

SpecIdentity == InitIdentity /\ [][NextIdentity]_vars

(***************************************************************************)
(* SPhysicalCapabilities and its operator[] (PhysicalControllerTypes.h).   *)
(***************************************************************************)
MaxWrites == 2

\* The Count enumerators: the widths of the four bit-sets.
EPhysicalStickCount == 4
EPhysicalTriggerCount == 2
EPhysicalButtonCount == 16
EForceFeedbackActuatorCount == 4

\* The enumerators each overload of operator[] accepts.
CapabilityIndexes(kind) ==
  CASE kind = "stick" -> 0..(EPhysicalStickCount - 1)
    [] kind = "trigger" -> 0..(EPhysicalTriggerCount - 1)
    [] kind = "button" -> 0..(EPhysicalButtonCount - 1)
    [] kind = "forceFeedbackActuator" -> 0..(EForceFeedbackActuatorCount - 1)
CapabilityKinds == {"stick", "trigger", "button", "forceFeedbackActuator"}

\* std::bitset: test of a position, and assignment through bitset::reference.
BitsetTest(word, pos) == Bit(word, pos) = 1
BitsetAssign(word, pos, value) ==
  IF value THEN (IF BitsetTest(word, pos) THEN word ELSE word + Pow2(pos))
  ELSE (IF BitsetTest(word, pos) THEN word - Pow2(pos) ELSE word)

\* The const operator[] overloads: read the bit of the set the enumerator's type
\* selects.
CapabilitiesRead(c, kind, idx) ==
  CASE kind = "stick" -> BitsetTest(c.stick, idx)
    [] kind = "trigger" -> BitsetTest(c.trigger, idx)
    [] kind = "button" -> BitsetTest(c.button, idx)
    [] kind = "forceFeedbackActuator" -> BitsetTest(c.forceFeedbackActuator, idx)

\* Variant: the EPhysicalButton overload hands out a reference into the stick set.
CapabilitiesAssignButtonIntoStick(c, kind, idx, value) ==
  CASE kind = "stick" -> [c EXCEPT !.stick = BitsetAssign(@, idx, value)]
    [] kind = "trigger" -> [c EXCEPT !.trigger = BitsetAssign(@, idx, value)]
    [] kind = "button" -> [c EXCEPT !.stick = BitsetAssign(@, idx, value)]
    [] kind = "forceFeedbackActuator" ->
         [c EXCEPT !.forceFeedbackActuator = BitsetAssign(@, idx, value)]

\* The non-const operator[] overloads followed by an assignment to the reference.
CapabilitiesAssign(c, kind, idx, value) ==
  CASE kind = "stick" -> [c EXCEPT !.stick = BitsetAssign(@, idx, value)]
    [] kind = "trigger" -> [c EXCEPT !.trigger = BitsetAssign(@, idx, value)]
    [] kind = "button" -> [c EXCEPT !.button = BitsetAssign(@, idx, value)]
    [] kind = "forceFeedbackActuator" ->
         [c EXCEPT !.forceFeedbackActuator = BitsetAssign(@, idx, value)]

InitCapabilities ==
  /\ config = <<>>
  /\ InitRegistry
  /\ InitBackendIdle

\* capabilities[enumerator] = value.
CapabilitiesAssignCall ==
  /\ capsWrites < MaxWrites
  /\ \E kind \in CapabilityKinds, value \in BOOLEAN :
       \E idx \in CapabilityIndexes(kind) :
         /\ caps' = CapabilitiesAssign(caps, kind, idx, value)
         /\ lastWrite' = [kind |-> kind, idx |-> idx, value |-> value]
  /\ capsWrites' = capsWrites + 1
  /\ UNCHANGED <<registryVars, readVars, identityVars, forceFeedbackVars, reportedCaps>>

NextCapabilities == CapabilitiesAssignCall

SpecCapabilities == InitCapabilities /\ [][NextCapabilities]_vars

(***************************************************************************)
(* The built-in XInput backend: WriteForceFeedbackState.                   *)
(***************************************************************************)
\* Variant: every vendor result other than "not connected" is reported as success.
WriteForceFeedbackStateLenient(index, state, result) ==
  [call |-> SetStateArgs(index, state.leftMotor, state.rightMotor),
   value |-> (result # ERROR_DEVICE_NOT_CONNECTED)]

\* PhysicalControllerBackendXInput::WriteForceFeedbackState: the XInputSetState
\* call it makes, and the value it returns when that call returns `result`.
WriteForceFeedbackState(index, state, result) ==
  [call |-> SetStateArgs(index, state.leftMotor, state.rightMotor),
   value |-> (ERROR_SUCCESS = result)]

\* Actuator magnitudes (TForceFeedbackActuatorValue is uint16_t) and controller
\* indexes the model draws from.
MagnitudeSamples == {0, 1, 65535}
VibrationSamples ==
  {ForceFeedbackState(l, r, li, ri) : l \in MagnitudeSamples, r \in MagnitudeSamples,
                                      li \in MagnitudeSamples, ri \in MagnitudeSamples}
IndexSamples == {0, 3}

InitForceFeedback ==
  /\ config = <<>>
  /\ InitRegistry
  /\ InitReadIdle
  /\ InitIdentityIdle
  /\ InitCapabilitiesIdle
  /\ physicalControllerIndex \in IndexSamples
  /\ vibrationState \in VibrationSamples
  /\ setStateCall = SetStateArgs(0, 0, 0)
  /\ setStateResult = ERROR_SUCCESS
  /\ writeResult = NotWritten

\* One write: XInputSetState answers and WriteForceFeedbackState maps the answer.
WriteForceFeedbackStateCall ==
  /\ ~writeResult.called
  /\ \E r \in ResultSamples :
       LET w == WriteForceFeedbackState(physicalControllerIndex, vibrationState, r)
       IN /\ setStateResult' = r
          /\ setStateCall' = w.call
          /\ writeResult' = [called |-> TRUE, value |-> w.value]
  /\ UNCHANGED <<registryVars, readVars, identityVars, capabilitiesVars,
                 physicalControllerIndex, vibrationState>>

NextForceFeedback == WriteForceFeedbackStateCall

SpecForceFeedback == InitForceFeedback /\ [][NextForceFeedback]_vars

(***************************************************************************)
(* The example plugin's backend: SimpleXInputBackend::ReadInputState.      *)
(***************************************************************************)
\* The value SimpleXInputBackend::ReadInputState returns when XInputGetState
\* returned `result` and left `state` in the buffer.
SimpleXInputBackendReadInputState(result, state) ==
  IF result = ERROR_SUCCESS
    THEN [deviceStatus |-> "Ok",
          stick |-> state.sThumb,
          trigger |-> state.bTrigger,
          button |-> state.wButtons % Pow2(16)]
  ELSE IF result = ERROR_DEVICE_NOT_CONNECTED
    THEN DefaultState("NotConnected")
  ELSE DefaultState("Error")

\* One poll of each backend, XInputGetState giving both the same answer.
ReadInputStateBothCall ==
  /\ \E r \in ResultSamples, g \in GamepadSamples :
       /\ vendorResult' = r
       /\ xinputState' = g
       /\ physState' = ReadInputState(r, g)
       /\ exampleState' = SimpleXInputBackendReadInputState(r, g)
  /\ UNCHANGED <<registryVars, identityVars, capabilitiesVars, forceFeedbackVars>>

NextExample == ReadInputStateBothCall

SpecExample == InitBackend /\ [][NextExample]_vars

(***************************************************************************)
(* The built-in XInput backend: GetCapabilities.                           *)
(***************************************************************************)
\* enum class EPhysicalStick, EPhysicalTrigger and EForceFeedbackActuator: the
\* enumerators in declaration order, the first having value 0.
EPhysicalStick == <<"LeftX", "LeftY", "RightX", "RightY">>
EPhysicalTrigger == <<"LT", "RT">>
EForceFeedbackActuator ==
  <<"LeftMotor", "RightMotor", "LeftImpulseTrigger", "RightImpulseTrigger">>

\* static_cast<unsigned int>(enumerator) for an enumerator of the given enum.
EnumValue(enum, name) == (CHOOSE k \in 1..Len(enum) : enum[k] = name) - 1

\* (1u << a) | (1u << b) | ... over the enumerators named, in the order written.
RECURSIVE ShiftOrFrom(_, _, _)
ShiftOrFrom(enum, names, k) ==
  IF k > Len(names) THEN 0
  ELSE BitOr16(Pow2(EnumValue(enum, names[k])), ShiftOrFrom(enum, names, k + 1))
ShiftOr(enum, names) == ShiftOrFrom(enum, names, 1)

\* The pre-defined capability constants of PhysicalControllerTypes.h.
kPhysicalCapabilitiesAllAnalogSticks ==
  ShiftOr(EPhysicalStick, <<"LeftX", "LeftY", "RightX", "RightY">>)
kPhysicalCapabilitiesAllAnalogTriggers == ShiftOr(EPhysicalTrigger, <<"LT", "RT">>)
kPhysicalCapabilitiesStandardXInputButtons ==
  ShiftOr(EPhysicalButton,
          <<"DpadUp", "DpadDown", "DpadLeft", "DpadRight", "Start", "Back", "LS", "RS",
            "LB", "RB", "A", "B", "X", "Y">>)
kPhysicalCapabilitiesAllButtons ==
  ShiftOr(EPhysicalButton,
          <<"DpadUp", "DpadDown", "DpadLeft", "DpadRight", "Start", "Back", "LS", "RS",
            "LB", "RB", "UnusedGuide", "UnusedShare", "A", "B", "X", "Y">>)
kPhysicalCapabilitiesStandardXInputForceFeedbackActuators ==
  ShiftOr(EForceFeedbackActuator, <<"LeftMotor", "RightMotor">>)

\* Variant: the backend declares every button, the two unused ones included.
GetCapabilitiesAllButtons ==
  [stick |-> kPhysicalCapabilitiesAllAnalogSticks,
   trigger |-> kPhysicalCapabilitiesAllAnalogTriggers,
   button |-> kPhysicalCapabilitiesAllButtons,
   forceFeedbackActuator |-> kPhysicalCapabilitiesStandardXInputForceFeedbackActuators]

\* PhysicalControllerBackendXInput::GetCapabilities.
GetCapabilities ==
  [stick |-> kPhysicalCapabilitiesAllAnalogSticks,
   trigger |-> kPhysicalCapabilitiesAllAnalogTriggers,
   button |-> kPhysicalCapabilitiesStandardXInputButtons,
   forceFeedbackActuator |-> kPhysicalCapabilitiesStandardXInputForceFeedbackActuators]

\* The host asks the backend for its capabilities.
GetCapabilitiesCall ==
  /\ reportedCaps' = [called |-> TRUE, value |-> GetCapabilities]
  /\ UNCHANGED <<registryVars, readVars, identityVars, forceFeedbackVars, caps, capsWrites,
                 lastWrite>>

NextReport ==
  \/ ReadInputStateCall
  \/ GetCapabilitiesCall

SpecReport == InitBackend /\ [][NextReport]_vars

(***************************************************************************)
(* Properties of the registry.                                             *)
(***************************************************************************)
ModuleKinds == {"load failed", "no XidiPluginGetCount", "no XidiPluginGetInterface",
                "loaded"}
IndexKinds == {"null", "unrecognized type", "registered", "collision"}

\* The messages about position p of the configuration, module level and per index.
ModuleMsgs(p) == {k \in 1..Len(log) : log[k].pos = p /\ log[k].kind \in ModuleKinds}
IndexMsgs(p) == {k \in 1..Len(log) : log[k].pos = p /\ log[k].kind \in IndexKinds}

\* No call is inside the load body.
NoneLoading == \A c \in Calls : pc[c] \notin {"loop", "for", "emplace"}

\* Two names are the same name when letter case is ignored.
CaseFold(str) == [k \in 1..Len(str) |-> ToLower(str[k])]
SameIgnoringCase(a, b) == CaseFold(a) = CaseFold(b)

\* The tables a single, sequential pass over the configuration produces: every
\* module that loads with both entry points is enumerated from index 0 while the
\* index is below the count the module reports, and every non-null interface of a
\* known type is offered to the table of its type, where the first name wins.
RECURSIVE EnumerateFrom(_, _, _, _)
EnumerateFrom(tables, p, k, n) ==
  LET f == config[p]
      obj == XidiPluginGetInterface(f, k)
  IN IF ~(k < XidiPluginGetCount(f, n + 1)) THEN tables
     ELSE IF obj.null \/ obj.type >= EPluginTypeCount
       THEN EnumerateFrom(tables, p, k + 1, n + 1)
     ELSE IF \E e \in tables[obj.type] : SameIgnoringCase(e.name, obj.name)
       THEN EnumerateFrom(tables, p, k + 1, n + 1)
     ELSE EnumerateFrom(
            [tables EXCEPT ![obj.type] = @ \cup {[name |-> obj.name,
                                                   iface |-> InterfacePtr(p, k)]}],
            p, k + 1, n + 1)

RECURSIVE SequentialLoadFrom(_, _)
SequentialLoadFrom(tables, p) ==
  IF p > Len(config) THEN tables
  ELSE LET m == Module(config[p]) IN
         SequentialLoadFrom(
           IF m.loads /\ m.hasCount /\ m.hasGet THEN EnumerateFrom(tables, p, 0, 0)
           ELSE tables,
           p + 1)

ExpectedTables == SequentialLoadFrom([t \in 0..(EPluginTypeCount - 1) |-> {}], 1)

\* C1: however many calls of LoadConfiguredPlugins are made, one after another or
\* concurrently, the load body is executed exactly once: it never starts a second
\* time, it has started as soon as one call has passed the gate, and
\* LoadSinglePlugin never runs twice for the same entry of the configuration.
C1_LoadBodyOnce ==
  /\ loadRuns <= 1
  /\ (calls >= 1 => loadRuns = 1)
  /\ \A p \in 1..Len(config) : Cardinality(ModuleMsgs(p)) <= 1
  /\ (loadedPluginsFlag = "done" =>
        \A p \in 1..Len(config) : Cardinality(ModuleMsgs(p)) = 1)

\* A second call waits at the gate while the first is inside the load body,
\* enumerating a module it has loaded.
C1_Witness ==
  /\ \E c \in Calls : pc[c] = "blocked"
  /\ \E c \in Calls : pc[c] = "for" /\ i[c] >= 1
  /\ loadRuns = 1

\* C2: whenever a call of LoadConfiguredPlugins has returned, whichever call it is,
\* no call is still inside the load body, LoadSinglePlugin has run to its end for
\* every configured filename, and the tables hold the contents a complete
\* sequential load of the configuration produces.
C2_ReturnImpliesLoaded ==
  returns >= 1 =>
    /\ loadedPluginsFlag = "done"
    /\ NoneLoading
    /\ \A p \in 1..Len(config) : Cardinality(ModuleMsgs(p)) = 1
    /\ loadedPluginsByTypeAndName = ExpectedTables

\* The second call, which did not execute the load body, has returned while the
\* tables hold entries.
C2_Witness ==
  /\ pc[2] = "returned"
  /\ loadRuns = 1
  /\ loadedPluginsByTypeAndName[PhysicalControllerBackend] # {}

\* C3: once one call of LoadConfiguredPlugins has returned, no later step (a
\* further call beginning, passing the gate or returning) changes any table, and
\* after N > 1 calls the tables are those one sequential load produces.
C3_LoadIdempotent ==
  /\ [][returns >= 1 =>
          loadedPluginsByTypeAndName' = loadedPluginsByTypeAndName]_vars
  /\ [](returns >= 2 => loadedPluginsByTypeAndName = ExpectedTables)

\* Two calls have returned and two entries are registered.
C3_Witness ==
  /\ returns >= 2
  /\ Cardinality(loadedPluginsByTypeAndName[PhysicalControllerBackend]) >= 2

\* The step is the registration step of call c.
Registers(c) == pc[c] = "emplace" /\ pc'[c] = "for"

\* C4: no table ever holds two entries whose names are equal when letter case is
\* ignored, and a registration under a name that collides with an entry of the
\* same table leaves every table as it was: the first registrant stays mapped and
\* the table does not grow.
C4_NamesUniqueFirstWins ==
  /\ [](\A t \in DOMAIN loadedPluginsByTypeAndName :
          \A e1, e2 \in loadedPluginsByTypeAndName[t] :
            SameIgnoringCase(e1.name, e2.name) => e1 = e2)
  /\ [][\A c \in Calls :
          (/\ Registers(c)
           /\ \E e \in loadedPluginsByTypeAndName[Deref(plugin[c]).type] :
                SameIgnoringCase(e.name, Deref(plugin[c]).name))
          => loadedPluginsByTypeAndName' = loadedPluginsByTypeAndName]_vars

\* b.dll alone was loaded: "foo" was registered from index 0, "FOO" from index 2
\* collided with it, and the table holds the first registrant only.
C4_Witness ==
  /\ \E k \in 1..Len(log) : log[k].kind = "collision" /\ log[k].idx = 2
  /\ loadedPluginsByTypeAndName[PhysicalControllerBackend] =
       {[name |-> StrFooLower, iface |-> InterfacePtr(1, 0)]}

\* The step is a lookup that returns, and it did not overlap a write of the table.
CleanLookup == lastLookup' # lastLookup /\ ~lastLookup'.raced

\* C5: a lookup of a name m returns exactly the interface pointer registered under
\* n in the physical controller backend table, for every registered n that equals
\* m when letter case is ignored (lookups that overlap a table write of a load
\* phase running on another thread have no defined result and are left out).
C5_LookupFindsIgnoringCase ==
  [][CleanLookup =>
       \A e \in loadedPluginsByTypeAndName[PhysicalControllerBackend] :
         SameIgnoringCase(e.name, lastLookup'.name) => lastLookup'.result = e.iface]_vars

\* "FOO" was looked up and returned the interface a module registered under a name
\* spelled with other letter case.
C5_Witness ==
  /\ lastLookup.valid
  /\ ~lastLookup.raced
  /\ lastLookup.name = StrFooUpper
  /\ lastLookup.result # NullPtr
  /\ Deref(lastLookup.result).name # StrFooUpper
  /\ [name |-> Deref(lastLookup.result).name, iface |-> lastLookup.result]
       \in loadedPluginsByTypeAndName[PhysicalControllerBackend]

\* No configured module loads with both entry points (the list may be empty).
NothingLoads == \A p \in 1..Len(config) : ~Module(config[p]).loads
                                          \/ ~Module(config[p]).hasCount
                                          \/ ~Module(config[p]).hasGet

\* C6: a lookup of a name that equals no registered name when letter case is
\* ignored returns nullptr; and when the configured list is empty or no configured
\* module loads, the tables stay empty and every lookup returns nullptr.
C6_LookupNotFound ==
  /\ [][(/\ CleanLookup
         /\ ~\E e \in loadedPluginsByTypeAndName[PhysicalControllerBackend] :
               SameIgnoringCase(e.name, lastLookup'.name))
        => lastLookup'.result = NullPtr]_vars
  /\ [](NothingLoads =>
          /\ \A t \in DOMAIN loadedPluginsByTypeAndName : loadedPluginsByTypeAndName[t] = {}
          /\ (lastLookup.valid => lastLookup.result = NullPtr /\ ~lastLookup.raced))

\* "Fo" was looked up after the load while "Foo" and "Bar" are registered, and the
\* lookup returned nullptr.
C6_Witness ==
  /\ lastLookup.valid
  /\ lastLookup.name = StrFo
  /\ lastLookup.result = NullPtr
  /\ loadedPluginsFlag = "done"
  /\ {e.name : e \in loadedPluginsByTypeAndName[PhysicalControllerBackend]} = {StrFoo, StrBar}

\* The interfaces of the module at position q that are not null and of a known type.
ValidIndexes(q) ==
  {k \in 0..(XidiPluginGetCount(config[q], 1) - 1) :
     LET obj == XidiPluginGetInterface(config[q], k)
     IN ~obj.null /\ obj.type < EPluginTypeCount}

\* C7: a configured filename whose module fails to load contributes no table entry
\* and no per-index message and produces exactly one load-failure message; and
\* when the load phase has ended every other configured filename has been
\* attempted exactly once, and every valid interface of every other module that
\* loads has its name registered, by itself unless an earlier registrant holds it.
C7_LoadFailureSkipsOnlyThatModule ==
  \A p \in 1..Len(config) :
    ~LoadLibraryW(config[p]) =>
      /\ \A t \in DOMAIN loadedPluginsByTypeAndName :
           \A e \in loadedPluginsByTypeAndName[t] : e.iface.pos # p
      /\ IndexMsgs(p) = {}
      /\ \A k \in ModuleMsgs(p) : log[k].kind = "load failed"
      /\ Cardinality(ModuleMsgs(p)) <= 1
      /\ loadedPluginsFlag = "done" =>
           /\ Cardinality(ModuleMsgs(p)) = 1
           /\ \A q \in (1..Len(config)) \ {p} :
                /\ Cardinality(ModuleMsgs(q)) = 1
                /\ ModuleOutcome(config[q]) = "loaded" =>
                     \A k \in ValidIndexes(q) :
                       LET obj == XidiPluginGetInterface(config[q], k) IN
                         \E e \in loadedPluginsByTypeAndName[obj.type] :
                           /\ SameIgnoringCase(e.name, obj.name)
                           /\ \/ e.iface = InterfacePtr(q, k)
                              \/ e.iface.pos < q
                              \/ e.iface.pos = q /\ e.iface.idx < k

\* Three filenames were configured, the second failed to load, and the first and
\* the third each have an interface registered.
C7_Witness ==
  /\ config = <<"b.dll", "missing.dll", "a.dll">>
  /\ loadedPluginsFlag = "done"
  /\ loadedPluginsByTypeAndName[PhysicalControllerBackend] =
       {[name |-> StrFooLower, iface |-> InterfacePtr(1, 0)],
        [name |-> StrBar, iface |-> InterfacePtr(3, 2)]}
  /\ Cardinality({k \in 1..Len(log) : log[k].kind = "load failed"}) = 1

\* C8: the tables are empty until the load phase starts, they change only in a
\* registration step of the load phase while the one-time gate is held, and once
\* the load phase has ended no step (a further LoadConfiguredPlugins call, a
\* lookup) adds, removes or replaces an entry.
C8_TablesWrittenOnlyByLoad ==
  /\ [](loadedPluginsFlag = "idle" =>
          \A t \in DOMAIN loadedPluginsByTypeAndName : loadedPluginsByTypeAndName[t] = {})
  /\ [][loadedPluginsByTypeAndName' # loadedPluginsByTypeAndName =>
          /\ loadedPluginsFlag = "active"
          /\ loadedPluginsFlag' = "active"
          /\ \E c \in Calls : Registers(c)]_vars
  /\ [][loadedPluginsFlag = "done" =>
          /\ loadedPluginsByTypeAndName' = loadedPluginsByTypeAndName
          /\ loadedPluginsFlag' = "done"]_vars

\* After the load phase ended a second call returned and a lookup found an entry,
\* and the tables are those the load produced.
C8_Witness ==
  /\ loadedPluginsFlag = "done"
  /\ returns >= 2
  /\ lastLookup.valid
  /\ ~lastLookup.raced
  /\ lastLookup.result # NullPtr
  /\ Cardinality(loadedPluginsByTypeAndName[PhysicalControllerBackend]) = 2

\* The positions of the configuration for which LoadSinglePlugin has been entered
\* (its first call is LoadLibraryW), in the order of the calls.
RECURSIVE LoadOrderFrom(_)
LoadOrderFrom(n) ==
  IF n > Len(trace) THEN <<>>
  ELSE IF trace[n].op = "LoadLibraryW" THEN <<trace[n].pos>> \o LoadOrderFrom(n + 1)
  ELSE LoadOrderFrom(n + 1)
LoadOrder == LoadOrderFrom(1)

\* C17: the load phase calls LoadSinglePlugin for the configured filenames in
\* exactly the order the configuration presents them (first, second, ... with none
\* left out or repeated, all of them once the load phase has ended), one at a
\* time: every call, message and registration belonging to one filename comes
\* before every call and message belonging to the next.
C17_FilesInConfiguredOrder ==
  /\ [](/\ LoadOrder = [k \in 1..Len(LoadOrder) |-> k]
        /\ Len(LoadOrder) <= Len(config)
        /\ (loadedPluginsFlag = "done" => Len(LoadOrder) = Len(config))
        /\ \A n \in 1..(Len(trace) - 1) : trace[n].pos <= trace[n + 1].pos
        /\ \A n \in 1..(Len(log) - 1) : log[n].pos <= log[n + 1].pos
        /\ \A c \in Calls : pc[c] \in {"for", "emplace"} =>
             /\ trace[Len(trace)].pos = pluginToLoad[c]
             /\ ModuleMsgs(pluginToLoad[c]) # {})
  /\ [][\A c \in Calls : Registers(c) =>
          /\ trace[Len(trace)].pos = plugin[c].pos
          /\ log'[Len(log')].pos = plugin[c].pos
          /\ \A t \in DOMAIN loadedPluginsByTypeAndName :
               \A e \in loadedPluginsByTypeAndName'[t] \ loadedPluginsByTypeAndName[t] :
                 e.iface = plugin[c]]_vars

\* Three modules were configured and the load phase has ended: the first and the
\* third were enumerated, the second was released for want of an entry point.
C17_Witness ==
  /\ config = <<"a.dll", "nocount.dll", "b.dll">>
  /\ loadedPluginsFlag = "done"
  /\ LoadOrder = <<1, 2, 3>>
  /\ \E n \in 1..Len(trace) : trace[n].op = "FreeLibrary" /\ trace[n].pos = 2
  /\ \E n \in 1..Len(trace) : trace[n].op = "PluginName" /\ trace[n].pos = 3

\* The calls made while position p of the configuration was processed, in order.
TraceOf(p) == SelectSeq(trace, LAMBDA e : e.pos = p)

\* The module at position p loads and lacks one of the two entry points.
LacksEntryPoint(p) ==
  /\ Module(config[p]).loads
  /\ ~Module(config[p]).hasCount \/ ~Module(config[p]).hasGet

\* C18: when a module loads and either required entry point cannot be resolved,
\* the module is unloaded before LoadSinglePlugin returns (FreeLibrary is the last
\* call made for it, once, after LoadLibraryW and the failed GetProcAddress),
\* neither its count function nor its get-interface function is ever called, and
\* no table entry is added for it.
C18_MissingEntryPointUnloads ==
  \A p \in 1..Len(config) :
    LacksEntryPoint(p) =>
      LET tr == TraceOf(p)
          ops == [n \in 1..Len(tr) |-> tr[n].op]
      IN /\ ops \in {<<>>,
                      <<"LoadLibraryW", "GetProcAddress XidiPluginGetCount", "FreeLibrary">>,
                      <<"LoadLibraryW", "GetProcAddress XidiPluginGetCount",
                        "GetProcAddress XidiPluginGetInterface", "FreeLibrary">>}
         /\ (ModuleMsgs(p) # {} \/ loadedPluginsFlag = "done") =>
              /\ ops # <<>>
              /\ ops[Len(ops)] = "FreeLibrary"
              /\ (Len(ops) = 3) = ~Module(config[p]).hasCount
         /\ \A n \in 1..Len(tr) :
              tr[n].op \notin {"XidiPluginGetCount", "XidiPluginGetInterface",
                               "PluginType", "PluginName"}
         /\ \A t \in DOMAIN loadedPluginsByTypeAndName :
              \A e \in loadedPluginsByTypeAndName[t] : e.iface.pos # p
         /\ IndexMsgs(p) = {}
         /\ \A k \in ModuleMsgs(p) :
              log[k].kind \in {"no XidiPluginGetCount", "no XidiPluginGetInterface"}
         /\ moduleRefs[config[p]] = 0

\* A module without the get-interface entry point was released, and the module
\* configured after it was loaded and registered an interface.
C18_Witness ==
  /\ config = <<"noget.dll", "a.dll">>
  /\ loadedPluginsFlag = "done"
  /\ TraceOf(1) = <<Call("LoadLibraryW", 1, 0),
                    Call("GetProcAddress XidiPluginGetCount", 1, 0),
                    Call("GetProcAddress XidiPluginGetInterface", 1, 0),
                    Call("FreeLibrary", 1, 0)>>
  /\ \E e \in loadedPluginsByTypeAndName[PhysicalControllerBackend] : e.iface.pos = 2

\* The indexes get-interface-by-index was called with for position p, in order.
RECURSIVE FetchedFrom(_, _)
FetchedFrom(p, n) ==
  IF n > Len(trace) THEN <<>>
  ELSE IF trace[n].op = "XidiPluginGetInterface" /\ trace[n].pos = p
    THEN <<trace[n].idx>> \o FetchedFrom(p, n + 1)
  ELSE FetchedFrom(p, n + 1)
Fetched(p) == FetchedFrom(p, 1)

\* LoadSinglePlugin has returned for position p.
Returned(p) ==
  \/ loadedPluginsFlag = "done"
  \/ \E c \in Calls : pc[c] \in {"loop", "for", "emplace"} /\ pluginToLoad[c] > p

\* C19: for a module whose entry points both resolve and whose count function
\* returns count, get-interface-by-index is called exactly once for each index
\* 0, 1, ..., count-1, in ascending order, and for no other index (the calls made
\* so far are always the first few of these, and all of them once LoadSinglePlugin
\* has returned); when count is zero or negative it is never called.
C19_FetchesEachIndexOnce ==
  \A p \in 1..Len(config) :
    (ModuleOutcome(config[p]) = "loaded" /\ Len(Module(config[p]).counts) = 1) =>
      LET count == Module(config[p]).counts[1]
          fetched == Fetched(p)
      IN /\ fetched = [k \in 1..Len(fetched) |-> k - 1]
         /\ Len(fetched) <= (IF count > 0 THEN count ELSE 0)
         /\ Returned(p) => Len(fetched) = (IF count > 0 THEN count ELSE 0)
         /\ count <= 0 => fetched = <<>>

\* A module reporting a negative count, one reporting zero and one reporting three
\* were enumerated: the count function of each was called, and only the third had
\* interfaces fetched, at 0, 1 and 2.
C19_Witness ==
  /\ config = <<"negative.dll", "zero.dll", "a.dll">>
  /\ loadedPluginsFlag = "done"
  /\ \A p \in 1..3 : \E n \in 1..Len(trace) :
       trace[n].op = "XidiPluginGetCount" /\ trace[n].pos = p
  /\ Fetched(1) = <<>>
  /\ Fetched(2) = <<>>
  /\ Fetched(3) = <<0, 1, 2>>

\* The methods of IPlugin other than Initialize that the registry calls.
InterfaceMethods == {"PluginType", "PluginName"}

\* The indexes of the std::array of name tables.
TableIndexes == 0..(EPluginTypeCount - 1)

\* The interface pointers of the configured modules whose declared type tag is not
\* a known type.
UnknownTypePtrs ==
  UNION {{InterfacePtr(p, k) :
            k \in {j \in 0..(Len(Module(config[p]).ifaces) - 1) :
                     LET obj == XidiPluginGetInterface(config[p], j)
                     IN ~obj.null /\ obj.type >= EPluginTypeCount}} :
         p \in 1..Len(config)}

\* C20: an interface whose declared plugin-type tag is not a known type (its value
\* is EPluginType::Count or more) is never inserted into a name table and never
\* used to index the table array: the registration is reached only with a type
\* that is a valid index, only PluginType is ever called on such an interface and
\* it is reported as unrecognized; and every entry of the table of type t points
\* at an interface whose declared type is t and whose name is the entry's key.
C20_UnknownTypeNeverRegistered ==
  /\ DOMAIN loadedPluginsByTypeAndName = TableIndexes
  /\ \A c \in Calls : pc[c] = "emplace" =>
       /\ plugin[c] \notin UnknownTypePtrs
       /\ ~Deref(plugin[c]).null
       /\ Deref(plugin[c]).type \in TableIndexes
  /\ \A t \in DOMAIN loadedPluginsByTypeAndName :
       \A e \in loadedPluginsByTypeAndName[t] :
         /\ e.iface \notin UnknownTypePtrs
         /\ e.iface # NullPtr
         /\ ~Deref(e.iface).null
         /\ Deref(e.iface).type = t
         /\ Deref(e.iface).name = e.name
  /\ \A n \in 1..Len(trace) :
       (trace[n].op \in InterfaceMethods
          /\ InterfacePtr(trace[n].pos, trace[n].idx) \in UnknownTypePtrs)
       => trace[n].op = "PluginType"
  /\ \A n \in 1..Len(log) :
       (log[n].kind \in IndexKinds
          /\ InterfacePtr(log[n].pos, log[n].idx) \in UnknownTypePtrs)
       => log[n].kind = "unrecognized type"

\* b.dll was enumerated to its end: its interface at index 1, whose type tag is
\* the sentinel Count, was reported as unrecognized, and the table holds the
\* interface of index 0 only.
C20_Witness ==
  /\ config = <<"b.dll">>
  /\ loadedPluginsFlag = "done"
  /\ XidiPluginGetInterface("b.dll", 1).type = EPluginTypeCount
  /\ \E n \in 1..Len(log) : log[n] = Msg("unrecognized type", 1, 1)
  /\ loadedPluginsByTypeAndName[PhysicalControllerBackend] =
       {[name |-> StrFooLower, iface |-> InterfacePtr(1, 0)]}

\* C13: Initialize is invoked on a plugin interface before any other method of that
\* interface: no call of PluginType or PluginName on an interface a module returned
\* comes before the first Initialize call on that interface.
C13_InitializeBeforeOtherMethods ==
  \A n \in 1..Len(trace) :
    trace[n].op \in InterfaceMethods =>
      \E m \in 1..(n - 1) :
        /\ trace[m].op = "Initialize"
        /\ trace[m].pos = trace[n].pos
        /\ trace[m].idx = trace[n].idx

\* The indexes of the module at position p at which get-interface-by-index returns
\* null while the index is below the count the module reports.
NullIndexes(p) ==
  {k \in 0..(XidiPluginGetCount(config[p], 1) - 1) : XidiPluginGetInterface(config[p], k).null}

\* C21: when get-interface-by-index returns null at index i, no method is invoked
\* on the null result, no table entry is added for that index (the registration is
\* not reached with it and the only message about it says null), and enumeration
\* continues with index i+1: the indexes fetched are consecutive, all indexes
\* below the count have been fetched once LoadSinglePlugin has returned, and every
\* valid interface at a later index of the same module has its name registered.
C21_NullIsSkipped ==
  \A p \in 1..Len(config) :
    ModuleOutcome(config[p]) = "loaded" =>
      LET fetched == Fetched(p) IN
      \A k \in NullIndexes(p) :
        /\ \A n \in 1..Len(trace) :
             (trace[n].pos = p /\ trace[n].idx = k) =>
               trace[n].op \in {"XidiPluginGetCount", "XidiPluginGetInterface"}
        /\ \A t \in DOMAIN loadedPluginsByTypeAndName :
             \A e \in loadedPluginsByTypeAndName[t] : e.iface # InterfacePtr(p, k)
        /\ \A c \in Calls : plugin[c] # InterfacePtr(p, k)
        /\ \A n \in 1..Len(log) :
             (log[n].kind \in IndexKinds /\ log[n].pos = p /\ log[n].idx = k) =>
               log[n].kind = "null"
        /\ \A n \in 1..(Len(fetched) - 1) : fetched[n + 1] = fetched[n] + 1
        /\ Returned(p) =>
             /\ \E n \in 1..Len(log) : log[n] = Msg("null", p, k)
             /\ \A j \in (k + 1)..(XidiPluginGetCount(config[p], 1) - 1) :
                  /\ \E n \in 1..Len(fetched) : fetched[n] = j
                  /\ j \in ValidIndexes(p) =>
                       LET obj == XidiPluginGetInterface(config[p], j) IN
                         \E e \in loadedPluginsByTypeAndName[obj.type] :
                           SameIgnoringCase(e.name, obj.name)

\* a.dll alone was enumerated to its end: index 1 returned null and was reported,
\* and the interface at index 2 is registered.
C21_Witness ==
  /\ config = <<"a.dll">>
  /\ loadedPluginsFlag = "done"
  /\ XidiPluginGetInterface("a.dll", 1).null
  /\ \E n \in 1..Len(log) : log[n] = Msg("null", 1, 1)
  /\ [name |-> StrBar, iface |-> InterfacePtr(1, 2)]
       \in loadedPluginsByTypeAndName[PhysicalControllerBackend]

\* The stage of LoadSinglePlugin a call belongs to: loading the module, resolving
\* the first and the second entry point, enumerating, and the release of a module
\* that lacks an entry point.
Stage(op) ==
  CASE op = "LoadLibraryW" -> 1
    [] op = "GetProcAddress XidiPluginGetCount" -> 2
    [] op = "GetProcAddress XidiPluginGetInterface" -> 3
    [] op = "FreeLibrary" -> 5
    [] OTHER -> 4

\* The loop of LoadSinglePlugin for position p has gone past index k.
IndexDone(p, k) ==
  \/ Returned(p)
  \/ \E c \in Calls : pc[c] \in {"for", "emplace"} /\ pluginToLoad[c] = p /\ i[c] > k

\* The per-index messages about index k of position p.
OutcomeMsgs(p, k) == {n \in IndexMsgs(p) : log[n].idx = k}

\* C22: the processing of each configured filename goes module load, first entry
\* point, second entry point, enumeration, never backwards and with no step
\* retried: the module load is attempted at most once per entry of the
\* configuration (exactly once when LoadSinglePlugin has returned for it), each
\* entry point is resolved at most once and only after the step before it, the
\* enumeration visits indexes in ascending order, and every index fetched ends in
\* exactly one of the outcomes registered, collision, unrecognized type and null;
\* an outcome once written is never changed, and an entry once registered stays.
C22_NoStageRetried ==
  /\ [](\A p \in 1..Len(config) :
          LET tr == TraceOf(p)
              fetched == Fetched(p)
          IN /\ \A n \in 1..(Len(tr) - 1) :
                  \/ Stage(tr[n].op) < Stage(tr[n + 1].op)
                  \/ Stage(tr[n].op) = 4 /\ Stage(tr[n + 1].op) = 4
                       /\ tr[n].idx <= tr[n + 1].idx
             /\ (tr # <<>> => tr[1].op = "LoadLibraryW")
             /\ (Returned(p) => tr # <<>>)
             /\ \A op \in {"LoadLibraryW", "GetProcAddress XidiPluginGetCount",
                           "GetProcAddress XidiPluginGetInterface"} :
                  Cardinality({n \in 1..Len(tr) : tr[n].op = op}) <= 1
             /\ \A n \in 1..Len(fetched) :
                  /\ Cardinality(OutcomeMsgs(p, fetched[n])) <= 1
                  /\ IndexDone(p, fetched[n]) => Cardinality(OutcomeMsgs(p, fetched[n])) = 1
             /\ \A n \in IndexMsgs(p) : \E m \in 1..Len(fetched) : fetched[m] = log[n].idx
             /\ \A n \in IndexMsgs(p) :
                  (log[n].kind = "registered") <=>
                    (\E t \in DOMAIN loadedPluginsByTypeAndName :
                       \E e \in loadedPluginsByTypeAndName[t] :
                         e.iface = InterfacePtr(p, log[n].idx)))
  /\ [][/\ Len(log') >= Len(log)
        /\ SubSeq(log', 1, Len(log)) = log
        /\ Len(trace') >= Len(trace)
        /\ SubSeq(trace', 1, Len(trace)) = trace
        /\ \A t \in DOMAIN loadedPluginsByTypeAndName :
             loadedPluginsByTypeAndName[t] \subseteq loadedPluginsByTypeAndName'[t]]_vars

\* b.dll and then a.dll were processed to the end: the four outcomes registered,
\* unrecognized type, collision and null have all been written, each index has one
\* outcome, and each module was loaded once.
C22_Witness ==
  /\ config = <<"b.dll", "a.dll">>
  /\ loadedPluginsFlag = "done"
  /\ [n \in 1..Len(log) |-> log[n].kind] =
       <<"loaded", "registered", "unrecognized type", "collision",
         "loaded", "collision", "null", "registered">>
  /\ LoadOrder = <<1, 2>>

\* The module-level message LoadSinglePlugin writes for the module at position p,
\* as the claim groups them: the two missing-entry-point messages are one outcome.
ModuleMessageClass(kind) ==
  IF kind \in {"no XidiPluginGetCount", "no XidiPluginGetInterface"}
    THEN "missing entry point" ELSE kind

\* The outcome the loop body has for an interface object and the state of the
\* table of its type before the registration.
IndexOutcome(p, k) ==
  LET obj == XidiPluginGetInterface(config[p], k) IN
    IF obj.null THEN "null"
    ELSE IF obj.type >= EPluginTypeCount THEN "unrecognized type"
    ELSE IF \E e \in loadedPluginsByTypeAndName[obj.type] : e.iface = InterfacePtr(p, k)
      THEN "registered"
    ELSE "collision"

\* C23: every run of LoadSinglePlugin writes exactly one module-level message,
\* which is one of load failure, missing entry point and successful load, and
\* which is the first message about that filename; after a successful-load message
\* it writes exactly one message per enumerated index, in index order, and the
\* message tells which of the four outcomes null, unrecognized type, registered
\* and name collision the index had; a module that failed to load or lacked an
\* entry point gets no per-index message.
C23_OneMessagePerOutcome ==
  /\ \A n \in 1..Len(log) :
       /\ log[n].pos \in 1..Len(config)
       /\ log[n].kind \in ModuleKinds \cup IndexKinds
  /\ \A p \in 1..Len(config) :
       LET fetched == Fetched(p) IN
       /\ Cardinality(ModuleMsgs(p)) <= 1
       /\ Returned(p) => Cardinality(ModuleMsgs(p)) = 1
       /\ \A n \in ModuleMsgs(p) :
            /\ ModuleMessageClass(log[n].kind) \in {"load failed", "missing entry point", "loaded"}
            /\ log[n].kind = ModuleOutcome(config[p])
            /\ \A m \in 1..(n - 1) : log[m].pos # p
       /\ ModuleOutcome(config[p]) # "loaded" => IndexMsgs(p) = {}
       /\ \A n \in IndexMsgs(p) :
            /\ \E m \in ModuleMsgs(p) : m < n /\ log[m].kind = "loaded"
            /\ log[n].kind = IndexOutcome(p, log[n].idx)
            /\ \E m \in 1..Len(fetched) : fetched[m] = log[n].idx
            /\ \A m \in IndexMsgs(p) : m < n => log[m].idx < log[n].idx
       /\ \A n \in 1..Len(fetched) :
            IndexDone(p, fetched[n]) => Cardinality(OutcomeMsgs(p, fetched[n])) = 1

\* A module that fails to load, one that lacks an entry point and b.dll were
\* processed: one message each for the first two, and for b.dll the successful
\* load followed by registered, unrecognized type and name collision.
C23_Witness ==
  /\ config = <<"missing.dll", "nocount.dll", "b.dll">>
  /\ loadedPluginsFlag = "done"
  /\ log = <<Msg("load failed", 1, 0), Msg("no XidiPluginGetCount", 2, 0),
             Msg("loaded", 3, 0), Msg("registered", 3, 0),
             Msg("unrecognized type", 3, 1), Msg("collision", 3, 2)>>

\* C24: a module whose two entry points both resolved is never unloaded:
\* FreeLibrary is called only for a module that lacks an entry point, a module
\* that was enumerated keeps the reference LoadLibraryW gave it and no step
\* lowers a reference count, so every interface pointer stored in a name table
\* belongs to a module that is still loaded; and no stored entry is ever removed
\* or replaced.
C24_EnumeratedModuleStaysLoaded ==
  /\ [](/\ \A n \in 1..Len(trace) :
             trace[n].op = "FreeLibrary" => LacksEntryPoint(trace[n].pos)
        /\ \A p \in 1..Len(config) :
             (ModuleOutcome(config[p]) = "loaded" /\ ModuleMsgs(p) # {}) =>
               /\ moduleRefs[config[p]] >= 1
               /\ \A n \in 1..Len(trace) : trace[n].pos = p => trace[n].op # "FreeLibrary"
        /\ \A f \in DOMAIN moduleRefs :
             moduleRefs[f] =
               Cardinality({p \in 1..Len(config) :
                              /\ config[p] = f
                              /\ ModuleOutcome(f) = "loaded"
                              /\ ModuleMsgs(p) # {}})
        /\ \A t \in DOMAIN loadedPluginsByTypeAndName :
             \A e \in loadedPluginsByTypeAndName[t] :
               /\ e.iface.pos \in 1..Len(config)
               /\ moduleRefs[config[e.iface.pos]] >= 1)
  /\ [][/\ \A f \in DOMAIN moduleRefs : moduleRefs'[f] >= moduleRefs[f]
        /\ \A t \in DOMAIN loadedPluginsByTypeAndName :
             loadedPluginsByTypeAndName[t] \subseteq loadedPluginsByTypeAndName'[t]]_vars

\* a.dll was enumerated, a module lacking an entry point was released after it,
\* and the load phase has ended: a.dll is still loaded and its interfaces are in
\* the table.
C24_Witness ==
  /\ config = <<"a.dll", "nocount.dll">>
  /\ loadedPluginsFlag = "done"
  /\ moduleRefs["a.dll"] = 1
  /\ moduleRefs["nocount.dll"] = 0
  /\ \E n \in 1..Len(trace) : trace[n] = Call("FreeLibrary", 2, 0)
  /\ {e.iface : e \in loadedPluginsByTypeAndName[PhysicalControllerBackend]} =
       {InterfacePtr(1, 0), InterfacePtr(1, 2)}

\* The interfaces the load phase has discarded so far: the indexes reported as a
\* name collision, an unrecognized type or null.
Discarded ==
  {InterfacePtr(log[n].pos, log[n].idx) :
     n \in {m \in 1..Len(log) : log[m].kind \in {"collision", "unrecognized type", "null"}}}

\* C25: the load phase never invokes Initialize on any interface it enumerates,
\* whether the interface is registered or discarded because of a name collision,
\* an unrecognized type or a null result; and a discarded interface is in no name
\* table and is returned by no later lookup (lookups that overlap a table write
\* of a load phase running on another thread have no defined result and are left
\* out).
C25_NoInitializeDiscardedUnreachable ==
  /\ [](/\ \A n \in 1..Len(trace) : trace[n].op # "Initialize"
        /\ \A t \in DOMAIN loadedPluginsByTypeAndName :
             \A e \in loadedPluginsByTypeAndName[t] : e.iface \notin Discarded)
  /\ [][CleanLookup => lastLookup'.result \notin Discarded]_vars

\* b.dll and a.dll were loaded: PluginName was called on the interfaces that then
\* collided, Initialize on none, and a lookup of "FOO" after the load returned the
\* first registrant, not one of the two discarded interfaces of that name.
C25_Witness ==
  /\ config = <<"b.dll", "a.dll">>
  /\ loadedPluginsFlag = "done"
  /\ {InterfacePtr(1, 1), InterfacePtr(1, 2), InterfacePtr(2, 0), InterfacePtr(2, 1)} = Discarded
  /\ \E n \in 1..Len(trace) : trace[n] = Call("PluginName", 2, 0)
  /\ lastLookup.valid
  /\ ~lastLookup.raced
  /\ lastLookup.name = StrFooUpper
  /\ lastLookup.result = InterfacePtr(1, 0)

\* The interfaces the configured modules offer for the table of type t under a
\* name that equals `name` when letter case is ignored: position and index of
\* every non-null interface of a known type of a module that loads with both
\* entry points.
Offers(t, name) ==
  UNION {{InterfacePtr(p, k) :
            k \in {j \in ValidIndexes(p) :
                     LET obj == XidiPluginGetInterface(config[p], j)
                     IN obj.type = t /\ SameIgnoringCase(obj.name, name)}} :
         p \in {q \in 1..Len(config) : ModuleOutcome(config[q]) = "loaded"}}

\* Pointer a was handed out before pointer b: by a module configured earlier, or
\* by the same module at a lower index.
OfferedBefore(a, b) == a.pos < b.pos \/ (a.pos = b.pos /\ a.idx < b.idx)

\* C28: when several interfaces of the same type are offered under names that
\* collide when letter case is ignored, by different configured modules or at
\* different indexes of one module, the one retained in the table is the one of
\* the module that comes first in the configured filename list, and within one
\* module the one at the lowest index; and that one is what a lookup of the name
\* returns (lookups that overlap a table write of a load phase running on another
\* thread have no defined result and are left out).
C28_EarliestOfferRetained ==
  /\ [](\A t \in DOMAIN loadedPluginsByTypeAndName :
          \A e \in loadedPluginsByTypeAndName[t] :
            /\ e.iface \in Offers(t, e.name)
            /\ \A o \in Offers(t, e.name) : o = e.iface \/ OfferedBefore(e.iface, o))
  /\ [][(CleanLookup /\ lastLookup'.result # NullPtr) =>
          LET offers == Offers(PhysicalControllerBackend, lastLookup'.name) IN
            /\ lastLookup'.result \in offers
            /\ \A o \in offers : o = lastLookup'.result \/ OfferedBefore(lastLookup'.result, o)]_vars

\* b.dll and then a.dll were loaded: "FOO" at index 2 of b.dll collided with "foo"
\* at index 0 of the same module, "Foo" of a.dll collided with it too, and a
\* lookup of "FOO" returned the interface of b.dll at index 0.
C28_Witness ==
  /\ config = <<"b.dll", "a.dll">>
  /\ loadedPluginsFlag = "done"
  /\ Offers(PhysicalControllerBackend, StrFooUpper) =
       {InterfacePtr(1, 0), InterfacePtr(1, 2), InterfacePtr(2, 0)}
  /\ \E n \in 1..Len(log) : log[n] = Msg("collision", 1, 2)
  /\ \E n \in 1..Len(log) : log[n] = Msg("collision", 2, 0)
  /\ lastLookup = [valid |-> TRUE, name |-> StrFooUpper, result |-> InterfacePtr(1, 0),
                   raced |-> FALSE]

\* The step is a call of GetPhysicalControllerBackendInterface that returns.
LookupStep == lastLookup' # lastLookup

\* C29: GetPhysicalControllerBackendInterface never passes through the one-time
\* gate and never triggers loading: a lookup leaves the gate, the calls of
\* LoadConfiguredPlugins, the tables, the messages and the calls into modules as
\* they were; called before any LoadConfiguredPlugins call it returns nullptr for
\* every name and the tables are empty before and after it. Nothing orders a
\* lookup against a load phase running on another thread: the read of a lookup
\* can overlap a table write, which happens only while the gate is held and never
\* once a LoadConfiguredPlugins call has returned.
C29_LookupBypassesGate ==
  /\ [][LookupStep =>
          /\ loadedPluginsFlag' = loadedPluginsFlag
          /\ loadRuns' = loadRuns
          /\ pc' = pc
          /\ pluginToLoad' = pluginToLoad
          /\ loadedPluginsByTypeAndName' = loadedPluginsByTypeAndName
          /\ log' = log
          /\ trace' = trace
          /\ moduleRefs' = moduleRefs]_vars
  /\ [][(LookupStep /\ calls = 0) =>
          /\ lastLookup'.result = NullPtr
          /\ ~lastLookup'.raced
          /\ loadedPluginsFlag' = "idle"
          /\ \A t \in DOMAIN loadedPluginsByTypeAndName :
               loadedPluginsByTypeAndName[t] = {} /\ loadedPluginsByTypeAndName'[t] = {}]_vars
  /\ [][(LookupStep /\ lastLookup'.raced) =>
          /\ loadedPluginsFlag = "active"
          /\ returns = 0
          /\ \E c \in Calls : pc[c] = "emplace"]_vars
  /\ [][(LookupStep /\ returns >= 1) => ~lastLookup'.raced]_vars

\* A lookup ran while another thread was inside the registration of the load
\* phase, the gate held and no LoadConfiguredPlugins call returned yet: the read
\* overlapped the table write.
C29_Witness ==
  /\ lastLookup.valid
  /\ lastLookup.raced
  /\ loadedPluginsFlag = "active"
  /\ returns = 0
  /\ \E c \in Calls : pc[c] = "emplace" /\ plugin[c] # NullPtr

\* The loop indexes at which the count function was called for position p, in
\* the order of the calls.
RECURSIVE CountedFrom(_, _)
CountedFrom(p, n) ==
  IF n > Len(trace) THEN <<>>
  ELSE IF trace[n].op = "XidiPluginGetCount" /\ trace[n].pos = p
    THEN <<trace[n].idx>> \o CountedFrom(p, n + 1)
  ELSE CountedFrom(p, n + 1)
Counted(p) == CountedFrom(p, 1)

\* C30: the module's count function is invoked again before every iteration of
\* the loop, not once: its n-th call is made with the loop index at n-1, the
\* index n-1 is fetched exactly when it is below the value that n-th call
\* returned, and the loop ends at the first call whose value the index has
\* reached; so a module that always reports the same count c >= 0 has its count
\* function called exactly c+1 times, and a module whose reported count changes
\* between calls is enumerated up to the latest value, not the first one.
C30_CountCalledEveryIteration ==
  \A p \in 1..Len(config) :
    ModuleOutcome(config[p]) = "loaded" =>
      LET f == config[p]
          counted == Counted(p)
          fetched == Fetched(p)
          tr == TraceOf(p)
      IN /\ counted = [n \in 1..Len(counted) |-> n - 1]
         /\ fetched = [n \in 1..Len(fetched) |-> n - 1]
         /\ \A n \in 1..Len(counted) :
              (n - 1 < XidiPluginGetCount(f, n)) <=> (n <= Len(fetched))
         /\ \A n \in 1..Len(tr) :
              tr[n].op = "XidiPluginGetInterface" =>
                /\ n > 1
                /\ tr[n - 1] = Call("XidiPluginGetCount", p, tr[n].idx)
         /\ Returned(p) =>
              /\ Len(counted) = Len(fetched) + 1
              /\ ~(Len(counted) - 1 < XidiPluginGetCount(f, Len(counted)))
              /\ \A c \in 0..3 : Module(f).counts = <<c>> => Len(counted) = c + 1

\* A module whose count goes from 1 to 3 had three interfaces fetched and its
\* count function called four times; one whose count goes from 3 to 1 had one
\* interface fetched and two calls; a.dll, reporting 3 every time, had four calls.
C30_Witness ==
  /\ config = <<"grows.dll", "shrinks.dll", "a.dll">>
  /\ loadedPluginsFlag = "done"
  /\ XidiPluginGetCount("grows.dll", 1) = 1
  /\ XidiPluginGetCount("shrinks.dll", 1) = 3
  /\ Fetched(1) = <<0, 1, 2>>
  /\ Counted(1) = <<0, 1, 2, 3>>
  /\ Fetched(2) = <<0>>
  /\ Counted(2) = <<0, 1>>
  /\ Counted(3) = <<0, 1, 2, 3>>

\* Position q of the configuration repeats the filename of an earlier position,
\* and the module named loads with both entry points.
RepeatsEarlier(q) ==
  /\ ModuleOutcome(config[q]) = "loaded"
  /\ \E p \in 1..(q - 1) : config[p] = config[q]

\* C31: when the same valid module filename appears again in the configured list
\* and the module offers the same names and types as the first time, processing
\* the later occurrence leaves every name table exactly as it was: every
\* registration attempted for it is refused and changes no table, every interface
\* of a known type it offers is reported as a name collision, none as registered,
\* no entry points at an interface of the later occurrence, and every name the
\* module offers stays mapped to a pointer handed out at an earlier position.
C31_RepeatedModuleChangesNothing ==
  /\ [](\A q \in 1..Len(config) :
          RepeatsEarlier(q) =>
            /\ \A n \in IndexMsgs(q) :
                 /\ log[n].kind # "registered"
                 /\ log[n].idx \in ValidIndexes(q) => log[n].kind = "collision"
            /\ \A t \in DOMAIN loadedPluginsByTypeAndName :
                 \A e \in loadedPluginsByTypeAndName[t] : e.iface.pos # q
            /\ Returned(q) =>
                 \A k \in ValidIndexes(q) :
                   LET obj == XidiPluginGetInterface(config[q], k) IN
                     /\ \E n \in IndexMsgs(q) : log[n] = Msg("collision", q, k)
                     /\ \E e \in loadedPluginsByTypeAndName[obj.type] :
                          SameIgnoringCase(e.name, obj.name) /\ e.iface.pos < q)
  /\ [][\A c \in Calls :
          (pc[c] \in {"for", "emplace"} /\ RepeatsEarlier(pluginToLoad[c])) =>
            loadedPluginsByTypeAndName' = loadedPluginsByTypeAndName]_vars

\* a.dll was configured twice and the load phase has ended: both interfaces the
\* second occurrence offered were reported as name collisions and the table holds
\* the two pointers the first occurrence registered.
C31_Witness ==
  /\ config = <<"a.dll", "a.dll">>
  /\ loadedPluginsFlag = "done"
  /\ \E n \in 1..Len(log) : log[n] = Msg("collision", 2, 0)
  /\ \E n \in 1..Len(log) : log[n] = Msg("collision", 2, 2)
  /\ moduleRefs["a.dll"] = 2
  /\ loadedPluginsByTypeAndName[PhysicalControllerBackend] =
       {[name |-> StrFoo, iface |-> InterfacePtr(1, 0)],
        [name |-> StrBar, iface |-> InterfacePtr(1, 2)]}

\* The step is the entry of call c into LoadConfiguredPlugins.
Enters(c) == pc[c] = "notyet" /\ pc'[c] # "notyet"

\* C32: the fast-path flag isInitialized of LoadConfiguredPlugins is false in
\* every reachable state, no step changes it, and so every call of
\* LoadConfiguredPlugins, however late, goes through the one-time gate: it
\* executes the load body when the gate is idle, waits when the gate is held and
\* returns at once only when the gate is done; none returns through the early
\* return.
C32_FastPathNeverTaken ==
  /\ [](isInitialized = FALSE)
  /\ [][isInitialized' = isInitialized]_vars
  /\ [][\A c \in Calls :
          Enters(c) =>
            /\ ~isInitialized
            /\ pc'[c] = (IF loadedPluginsFlag = "idle" THEN "loop"
                         ELSE IF loadedPluginsFlag = "active" THEN "blocked"
                         ELSE "returned")
            /\ (pc'[c] = "returned" => loadedPluginsFlag = "done")]_vars

\* The load phase ended with entries registered and a second call has returned
\* without running the load body again; the flag is still false.
C32_Witness ==
  /\ returns = 2
  /\ loadRuns = 1
  /\ loadedPluginsFlag = "done"
  /\ isInitialized = FALSE
  /\ loadedPluginsByTypeAndName[PhysicalControllerBackend] # {}
  /\ Len(config) = 3

(***************************************************************************)
(* Properties of the built-in backend.                                     *)
(***************************************************************************)
\* ReadInputState has returned at least once.
HasRead == physState.deviceStatus # "none"

\* C9: when XInputGetState returns ERROR_SUCCESS, ReadInputState returns status Ok,
\* the four stick values and the two trigger values of the vendor snapshot, and
\* the vendor button word with bits 10 and 11 cleared and every other bit as it
\* was; raw buttons 0x0C01 with sticks {100,-200,300,-400} and triggers {10,20}
\* give buttons 0x0001 with the same sticks and triggers.
C9_ReadSuccessCopiesAndMasks ==
  (HasRead /\ vendorResult = ERROR_SUCCESS) =>
    /\ physState.deviceStatus = "Ok"
    /\ physState.stick = xinputState.sThumb
    /\ physState.trigger = xinputState.bTrigger
    /\ \A k \in 0..15 :
         Bit(physState.button, k) = IF k \in {10, 11} THEN 0 ELSE Bit(xinputState.wButtons, k)
    /\ physState.button \in 0..65535
    /\ (xinputState = Gamepad(3073, <<100, -200, 300, -400>>, <<10, 20>>) =>
          physState = [deviceStatus |-> "Ok", stick |-> <<100, -200, 300, -400>>,
                       trigger |-> <<10, 20>>, button |-> 1])

\* The snapshot of the example was read successfully.
C9_Witness ==
  /\ HasRead
  /\ vendorResult = ERROR_SUCCESS
  /\ xinputState = Gamepad(3073, <<100, -200, 300, -400>>, <<10, 20>>)
  /\ physState.button = 1

\* C10: when XInputGetState returns ERROR_DEVICE_NOT_CONNECTED, ReadInputState
\* returns status NotConnected, and for any other result that is not success it
\* returns status Error; in both cases every stick value, trigger value and button
\* bit is zero, whatever the buffer holds.
C10_ReadFailureZeroed ==
  (HasRead /\ vendorResult # ERROR_SUCCESS) =>
    /\ physState.deviceStatus =
         IF vendorResult = ERROR_DEVICE_NOT_CONNECTED THEN "NotConnected" ELSE "Error"
    /\ \A k \in 1..4 : physState.stick[k] = 0
    /\ \A k \in 1..2 : physState.trigger[k] = 0
    /\ \A k \in 0..15 : Bit(physState.button, k) = 0

\* The device was reported as not connected while the buffer held set buttons,
\* deflected sticks and pressed triggers.
C10_Witness ==
  /\ HasRead
  /\ vendorResult = ERROR_DEVICE_NOT_CONNECTED
  /\ xinputState = Gamepad(65535, <<-32768, 32767, -1, 1>>, <<255, 128>>)
  /\ physState.deviceStatus = "NotConnected"

\* C12: every stick-axis value of a physical state ReadInputState returns with
\* status Ok lies in kAnalogValueMin..kAnalogValueMax, that is in -32767..32767,
\* for every signed 16-bit value the vendor snapshot can hold.
C12_StickWithinAnalogRange ==
  (HasRead /\ physState.deviceStatus = "Ok") =>
    \A k \in 1..4 : physState.stick[k] \in kAnalogValueMin..kAnalogValueMax

\* C16: the bit position of every button in the button field of the physical
\* state equals the vendor API's bit for that button (DpadUp 0x0001, DpadDown
\* 0x0002, DpadLeft 0x0004, DpadRight 0x0008, Start 0x0010, Back 0x0020, LS 0x0040,
\* RS 0x0080, LB 0x0100, RB 0x0200, A 0x1000, B 0x2000, X 0x4000, Y 0x8000), so a
\* successful read reports a button pressed exactly when the vendor snapshot has
\* that button's mask set; the two reserved buttons (guide, share) occupy exactly
\* the remaining positions 10 and 11.
C16_ButtonLayoutMatchesVendor ==
  /\ \A b \in DOMAIN XINPUT_GAMEPAD : Pow2(ButtonValue(b)) = XINPUT_GAMEPAD[b]
  /\ {ButtonValue("UnusedGuide"), ButtonValue("UnusedShare")} = {10, 11}
  /\ (0..15) \ {ButtonValue(b) : b \in DOMAIN XINPUT_GAMEPAD} = {10, 11}
  /\ ButtonValue("UnusedGuide") = UnusedGuide
  /\ ButtonValue("UnusedShare") = UnusedShare
  /\ (HasRead /\ physState.deviceStatus = "Ok") =>
        \A b \in DOMAIN XINPUT_GAMEPAD :
          (Bit(physState.button, ButtonValue(b)) = 1)
            <=> (BitAnd16(xinputState.wButtons, XINPUT_GAMEPAD[b]) # 0)

\* A snapshot with only XINPUT_GAMEPAD_A set was read: the state has only the A
\* button, at position 12.
C16_Witness ==
  /\ HasRead
  /\ vendorResult = ERROR_SUCCESS
  /\ xinputState.wButtons = XINPUT_GAMEPAD["A"]
  /\ physState.button = Pow2(12)
  /\ ButtonValue("A") = 12

(***************************************************************************)
(* Properties of GetCapabilities.                                          *)
(***************************************************************************)
\* C26: every button bit set in a physical state ReadInputState returns is a
\* button GetCapabilities declares as supported, and GetCapabilities returns the
\* same value on every call: all four stick axes, both triggers, the fourteen
\* standard buttons without guide and share, and only the left and the right
\* motor.
C26_StateWithinCapabilities ==
  /\ []((HasRead /\ reportedCaps.called) =>
          \A k \in CapabilityIndexes("button") :
            Bit(physState.button, k) = 1 => CapabilitiesRead(reportedCaps.value, "button", k))
  /\ [](reportedCaps.called =>
          /\ \A k \in CapabilityIndexes("stick") : CapabilitiesRead(reportedCaps.value, "stick", k)
          /\ \A k \in CapabilityIndexes("trigger") :
               CapabilitiesRead(reportedCaps.value, "trigger", k)
          /\ \A k \in CapabilityIndexes("button") :
               CapabilitiesRead(reportedCaps.value, "button", k) <=> k \notin {10, 11}
          /\ Cardinality({k \in CapabilityIndexes("button") :
                            CapabilitiesRead(reportedCaps.value, "button", k)}) = 14
          /\ \A k \in CapabilityIndexes("forceFeedbackActuator") :
               CapabilitiesRead(reportedCaps.value, "forceFeedbackActuator", k) <=>
                 k \in {EnumValue(EForceFeedbackActuator, "LeftMotor"),
                        EnumValue(EForceFeedbackActuator, "RightMotor")}
          /\ reportedCaps.value.button \in 0..(Pow2(EPhysicalButtonCount) - 1))
  /\ [][(reportedCaps.called /\ reportedCaps'.called) =>
          reportedCaps'.value = reportedCaps.value]_vars

\* The capabilities were asked for and a snapshot with every vendor bit set was
\* read: the state holds the fourteen declared buttons and no other.
C26_Witness ==
  /\ reportedCaps.called
  /\ HasRead
  /\ vendorResult = ERROR_SUCCESS
  /\ xinputState.wButtons = 65535
  /\ physState.button = reportedCaps.value.button
  /\ physState.button = 62463

(***************************************************************************)
(* Properties of the example plugin's backend.                             *)
(***************************************************************************)
\* C27: for every vendor result code and every vendor snapshot, the example
\* backend SimpleXInputBackend returns from ReadInputState the same physical state
\* as the built-in backend, with zero at the reserved guide and share button bits
\* (positions 10 and 11).
C27_ExampleMatchesReference ==
  exampleState.deviceStatus # "none" =>
    /\ exampleState = physState
    /\ Bit(exampleState.button, UnusedGuide) = 0
    /\ Bit(exampleState.button, UnusedShare) = 0

(***************************************************************************)
(* Properties of the identity test.                                        *)
(***************************************************************************)
\* The string contains the marker "&IG_" when letter case is ignored.
ContainsMarkerIgnoringCase(path) ==
  \E k \in 1..(Len(path) - 3) :
    SameIgnoringCase(SubSeq(path, k, k + 3), StrMarkerUpper)

\* C11: SupportsControllerByGuidAndPath returns true for an identity string if
\* and only if the string contains the marker "&IG_" under case-insensitive
\* comparison, for every mix of upper and lower case of the letters I and G.
C11_SupportsIffMarkerIgnoringCase ==
  supportsResult.called =>
    (supportsResult.value <=> ContainsMarkerIgnoringCase(guidAndPath))

(***************************************************************************)
(* Properties of SPhysicalCapabilities.                                    *)
(***************************************************************************)
\* C14: on a value-initialized capabilities object, assigning true to the button
\* capability at index 2 through operator[] makes that index read true while every
\* other button index reads false and the stick, trigger and force-feedback
\* actuator sets stay as they were; and every assignment of one bit of one of the
\* four sets makes that bit read the assigned value and changes no other bit of
\* any set.
C14_CapabilityWriteIsLocal ==
  /\ []((capsWrites = 1 /\ lastWrite = [kind |-> "button", idx |-> 2, value |-> TRUE]) =>
          /\ \A k \in CapabilityIndexes("button") :
               CapabilitiesRead(caps, "button", k) = (k = 2)
          /\ caps.stick = DefaultCapabilities.stick
          /\ caps.trigger = DefaultCapabilities.trigger
          /\ caps.forceFeedbackActuator = DefaultCapabilities.forceFeedbackActuator)
  /\ [][capsWrites' # capsWrites =>
          /\ CapabilitiesRead(caps', lastWrite'.kind, lastWrite'.idx) = lastWrite'.value
          /\ \A kind \in CapabilityKinds :
               \A k \in CapabilityIndexes(kind) :
                 (kind # lastWrite'.kind \/ k # lastWrite'.idx) =>
                   CapabilitiesRead(caps', kind, k) = CapabilitiesRead(caps, kind, k)
          /\ caps'.stick \in 0..(Pow2(EPhysicalStickCount) - 1)
          /\ caps'.trigger \in 0..(Pow2(EPhysicalTriggerCount) - 1)
          /\ caps'.button \in 0..(Pow2(EPhysicalButtonCount) - 1)
          /\ caps'.forceFeedbackActuator \in 0..(Pow2(EForceFeedbackActuatorCount) - 1)]_vars

\* The button capability at index 2 was set on the value-initialized object.
C14_Witness ==
  /\ capsWrites = 1
  /\ lastWrite = [kind |-> "button", idx |-> 2, value |-> TRUE]
  /\ caps = [DefaultCapabilities EXCEPT !.button = 4]

(***************************************************************************)
(* Properties of WriteForceFeedbackState.                                  *)
(***************************************************************************)
\* C15: WriteForceFeedbackState returns true if and only if XInputSetState returns
\* ERROR_SUCCESS and false for every other vendor result; the vendor call carries
\* the controller index and the left-motor and right-motor magnitudes only, so a
\* force feedback state that differs from the one written only in its
\* impulse-trigger magnitudes produces the same vendor call and the same result.
C15_WriteReportsVendorResult ==
  writeResult.called =>
    /\ writeResult.value = (setStateResult = ERROR_SUCCESS)
    /\ setStateCall = SetStateArgs(physicalControllerIndex, vibrationState.leftMotor,
                                   vibrationState.rightMotor)
    /\ \A other \in VibrationSamples :
         (/\ other.leftMotor = vibrationState.leftMotor
          /\ other.rightMotor = vibrationState.rightMotor)
         => WriteForceFeedbackState(physicalControllerIndex, other, setStateResult) =
              [call |-> setStateCall, value |-> writeResult.value]

\* A state with both impulse triggers driven was written and the vendor call
\* failed with a result other than "not connected".
C15_Witness ==
  /\ writeResult.called
  /\ ~writeResult.value
  /\ setStateResult \notin {ERROR_SUCCESS, ERROR_DEVICE_NOT_CONNECTED}
  /\ vibrationState = ForceFeedbackState(1, 65535, 65535, 1)
  /\ setStateCall = SetStateArgs(3, 1, 65535)

====
